---- MODULE Spec2Model ----
(***************************************************************************)
(* A model of egui's painter / shape-list core                             *)
(* (crates/egui/src/painter.rs).                                           *)
(*                                                                         *)
(* A Painter is a value (layer_id, clip_rect, fade_to_color,               *)
(* opacity_factor).  The configuration methods are operators from painter  *)
(* values to painter values; the painting methods are actions on the       *)
(* per-layer shape lists owned by the context's graphics registry.         *)
(*                                                                         *)
(*   SpecClip     the clip-rect methods applied to one painter handle,     *)
(*                with the clip rects of its ancestors as history          *)
(*   SpecOpacity  the opacity methods applied to one painter handle, with  *)
(*                the arguments of the multiply_opacity calls as history   *)
(*   SpecPainter  every configuration method and is_visible                *)
(*   SpecPaint    add / extend / set through arbitrary painter values      *)
(***************************************************************************)
EXTENDS Integers, Sequences, FiniteSets, TLC

VARIABLES
    painter,        \* the Painter handle the configuration methods act on
    chain,          \* history: clip rects of the ancestors of `painter`
    hist,           \* history: [base, args] of the opacity calls on `painter`
    graphics,       \* ctx graphics: layer id -> PaintList (sequence of ClippedShape)
    will_discard,   \* ctx.will_discard() of the current pass
    last,           \* the last call made and what it returned
    available_rect, \* ctx.available_rect(): the pass's available-rect budget
    persisted,      \* ctx.data: Id -> the PanelState persisted under it, if any
    cursor,         \* the cursor rect of the parent Ui panels are shown inside
    shown,          \* history: the top-level panels shown in this pass
    plast,          \* the last panel call made, what it returned, and its event log
    handles,        \* ctx widgets: the ids interacted with in the pass before and in this one
    strip,          \* the StripLayout: direction, rect, cursor, max
    line,           \* history: origin and cell rects of the strip's current line
    slast,          \* the last StripLayout call made
    built,          \* the panel a builder chain has built so far, and its last call
    app,            \* the WinitAppWrapper: repaint times, return_result, run_and_return
    event_loop,     \* the ActiveEventLoop: its control flow, and whether exit() was called
    clock,          \* the latest Instant::now() that has been reached
    process,        \* the process: target, whether the loop runs, what run returned
    rlast           \* the last handler run, what it read and what it called

painterVars == <<painter, chain, hist, graphics, will_discard, last>>
panelVars == <<available_rect, persisted, cursor, shown, plast, handles>>
stripVars == <<strip, line, slast>>
builderVars == <<built>>
runVars == <<app, event_loop, clock, process, rlast>>
vars == <<painter, chain, hist, graphics, will_discard, last,
          available_rect, persisted, cursor, shown, plast, handles,
          strip, line, slast, built, app, event_loop, clock, process, rlast>>

----------------------------------------------------------------------------
(* Bounds of the model *)
MaxInstant == 2
MaxElapsed == 1
MaxPassNr == 2

\* f32 is modelled as a binary floating-point format of reduced width:
\* MantBits significant bits, ExpRange binades below 1.0 (then subnormals),
\* round-to-nearest, ties-to-even.
MantBits == 3
ExpRange == 3
\* Longest chain of with_clip_rect / shrink_clip_rect calls that is recorded.
MaxChain == 3
\* Longest sequence of multiply_opacity calls that is recorded.
MaxHist == 3
\* Most shapes stored in all the paint lists of one pass.
MaxShapes == 2
\* Color channels are modelled with values 0..ChanMax instead of 0..255.
ChanMax == 4

----------------------------------------------------------------------------
(* f32 *)

Pow2(n) == 2 ^ n

\* The integer that stands for 1.0: a value v stands for v / One.
One == Pow2(MantBits - 1 + ExpRange)

Min2(a, b) == IF a <= b THEN a ELSE b
Max2(a, b) == IF a >= b THEN a ELSE b

\* The values of [0.0, 1.0] the format can represent.
Representable(n) ==
    \E k \in 0..ExpRange : \E m \in 0..(Pow2(MantBits) - 1) : n = m * Pow2(k)

F01 == {n \in 0..One : Representable(n)}

\* num / One rounded to the nearest representable value, ties to even.
RoundNearestEven(num) ==
    LET lo == CHOOSE r \in F01 :
                 /\ r * One <= num
                 /\ \A q \in F01 : q * One <= num => q <= r
        hi == CHOOSE r \in F01 :
                 /\ r * One >= num
                 /\ \A q \in F01 : q * One >= num => q >= r
        dl == num - lo * One
        dh == hi * One - num
    IN  IF lo = hi THEN lo
        ELSE IF dl < dh THEN lo
        ELSE IF dh < dl THEN hi
        ELSE IF (lo \div (hi - lo)) % 2 = 0 THEN lo ELSE hi

\* a * b in f32, for a and b in [0.0, 1.0].
FMul(a, b) == RoundNearestEven(a * b)

\* An f32 argument: a finite value, or NaN, +inf, -inf.
Finite(v) == [cls |-> "finite", v |-> v]
NaN == [cls |-> "nan", v |-> 0]
PosInf == [cls |-> "inf", v |-> 1]
NegInf == [cls |-> "inf", v |-> -1]

is_finite(x) == x.cls = "finite"

\* f32::clamp(0.0, 1.0) of a finite value.
clamp01(x) == Min2(Max2(x.v, 0), One)

\* The arguments the opacity methods are called with: below 0, 0, values inside
\* (0, 1), 1, above 1, and the three non-finite values.
OpacityArgs ==
    { Finite(0 - One), Finite(0), Finite(One \div 2), Finite((5 * One) \div 8),
      Finite((3 * One) \div 4), Finite((7 * One) \div 8), Finite(One),
      Finite(2 * One), NaN, PosInf, NegInf }

----------------------------------------------------------------------------
(* Rect *)

Pos(x, y) == [x |-> x, y |-> y]
RectOf(x0, y0, x1, y1) == [min |-> Pos(x0, y0), max |-> Pos(x1, y1)]

\* Rect::intersect: the larger of the mins and the smaller of the maxes.
\* The result has min > max on an axis where the two rects are disjoint.
intersect(a, b) ==
    [min |-> Pos(Max2(a.min.x, b.min.x), Max2(a.min.y, b.min.y)),
     max |-> Pos(Min2(a.max.x, b.max.x), Min2(a.max.y, b.max.y))]

\* The rects the clip methods are called with: the whole screen, overlapping
\* parts of it, two disjoint parts, and an inverted (negative) rect.
ScreenRect == RectOf(0, 0, 3, 3)
ClipArgs ==
    { ScreenRect, RectOf(1, 0, 3, 2), RectOf(0, 1, 2, 3),
      RectOf(2, 2, 3, 3), RectOf(0, 0, 1, 1), RectOf(3, 3, 0, 0) }

\* The points of the plane (with the coordinates the model uses) inside a rect.
Grid == {Pos(x, y) : x \in 0..3, y \in 0..3}
Points(r) ==
    {pt \in Grid : /\ r.min.x <= pt.x /\ pt.x <= r.max.x
                   /\ r.min.y <= pt.y /\ pt.y <= r.max.y}

\* Everything visible through a is visible through b.
RectSubset(a, b) == Points(a) \subseteq Points(b)

----------------------------------------------------------------------------
(* Color32 and Shape *)

Color(l, a) == [l |-> l, a |-> a]

TRANSPARENT == Color(0, 0)
\* Color32::PLACEHOLDER: a sentinel that is no valid premultiplied color.
PLACEHOLDER == Color(ChanMax, ChanMax \div 2)
WHITE == Color(ChanMax, ChanMax)
GRAY == Color(ChanMax \div 2, ChanMax)

\* Option<Color32>
None == [some |-> FALSE, c |-> TRANSPARENT]
Some(c) == [some |-> TRUE, c |-> c]

\* ecolor::tint_color_towards: each channel moves half way to the target.
tint_color_towards(color, target) ==
    Color(color.l \div 2 + target.l \div 2, color.a \div 2 + target.a \div 2)

\* Color32::gamma_multiply: each channel times the factor, rounded.
gamma_multiply(color, factor) ==
    Color((2 * color.l * factor + One) \div (2 * One),
          (2 * color.a * factor + One) \div (2 * One))

\* A shape is Shape::Noop or a primitive with a fill and a stroke color.
Noop == [kind |-> "Noop", fill |-> TRANSPARENT, stroke |-> TRANSPARENT]
RectShape(fill, stroke) == [kind |-> "Rect", fill |-> fill, stroke |-> stroke]

\* Mutant: the placeholder is tinted like any other color.
tint_color_unguarded(color, target) == tint_color_towards(color, target)

\* The callback of tint_shape_towards, called on one color.
tint_color(color, target) ==
    IF color # PLACEHOLDER THEN tint_color_towards(color, target) ELSE color

\* The callback of multiply_opacity, called on one color.
fade_color(color, opacity) ==
    IF color # PLACEHOLDER THEN gamma_multiply(color, opacity) ELSE color

\* epaint::shape_transform::adjust_colors calls the callback on every color of
\* the shape; Shape::Noop has none.
tint_shape_towards(shape, target) ==
    IF shape.kind = "Noop" THEN shape
    ELSE [shape EXCEPT !.fill = tint_color(shape.fill, target),
                       !.stroke = tint_color(shape.stroke, target)]

multiply_opacity(shape, opacity) ==
    IF shape.kind = "Noop" THEN shape
    ELSE [shape EXCEPT !.fill = fade_color(shape.fill, opacity),
                       !.stroke = fade_color(shape.stroke, opacity)]

\* The shapes handed to add / extend / set.
ShapeArgs == { RectShape(PLACEHOLDER, WHITE), RectShape(WHITE, GRAY) }

ClippedShape(clip_rect, shape) == [clip_rect |-> clip_rect, shape |-> shape]

LayerIds == {"Background", "Foreground"}

----------------------------------------------------------------------------
(* Painter: configuration *)

Painter_new(layer_id, clip_rect) ==
    [layer_id |-> layer_id, clip_rect |-> clip_rect,
     fade_to_color |-> None, opacity_factor |-> One]

Painter_with_layer_id(self, layer_id) == [self EXCEPT !.layer_id = layer_id]

\* Mutant: the given rect is taken as it is, not intersected with the parent's.
Painter_with_clip_rect_unclipped(self, rect) == [self EXCEPT !.clip_rect = rect]

Painter_with_clip_rect(self, rect) ==
    [self EXCEPT !.clip_rect = intersect(rect, self.clip_rect)]

Painter_set_fade_to_color(self, fade_to_color) ==
    [self EXCEPT !.fade_to_color = fade_to_color]

\* Mutant: the argument is stored without being clamped.
Painter_set_opacity_unclamped(self, opacity) ==
    IF is_finite(opacity) THEN [self EXCEPT !.opacity_factor = opacity.v] ELSE self

Painter_set_opacity(self, opacity) ==
    IF is_finite(opacity)
    THEN [self EXCEPT !.opacity_factor = clamp01(opacity)]
    ELSE self

\* Mutant: the factor is assigned, not multiplied into the current one.
Painter_multiply_opacity_assign(self, opacity) ==
    IF is_finite(opacity)
    THEN [self EXCEPT !.opacity_factor = clamp01(opacity)]
    ELSE self

\* Mutant: the argument is multiplied in without being clamped.
Painter_multiply_opacity_unclamped(self, opacity) ==
    IF is_finite(opacity)
    THEN [self EXCEPT !.opacity_factor = (self.opacity_factor * opacity.v) \div One]
    ELSE self

Painter_multiply_opacity(self, opacity) ==
    IF is_finite(opacity)
    THEN [self EXCEPT !.opacity_factor = FMul(self.opacity_factor, clamp01(opacity))]
    ELSE self

Painter_opacity(self) == self.opacity_factor

Painter_is_visible(self, discard) ==
    self.fade_to_color # Some(TRANSPARENT) /\ ~discard

Painter_set_invisible(self) == [self EXCEPT !.fade_to_color = Some(TRANSPARENT)]

Painter_shrink_clip_rect(self, new_clip_rect) ==
    [self EXCEPT !.clip_rect = intersect(self.clip_rect, new_clip_rect)]

Painter_set_clip_rect(self, clip_rect) == [self EXCEPT !.clip_rect = clip_rect]

----------------------------------------------------------------------------
(* Painter: low level (the paint list of the painter's layer) *)

\* PaintList::add: push, the index returned is the position of the new entry.
PaintList_add(list, clip_rect, shape) ==
    [list |-> Append(list, ClippedShape(clip_rect, shape)), idx |-> Len(list)]

\* PaintList::extend: push every shape, in order, with the same clip rect.
PaintList_extend(list, clip_rect, shapes) ==
    list \o [i \in 1..Len(shapes) |-> ClippedShape(clip_rect, shapes[i])]

\* PaintList::set: overwrite the entry at idx (indices count from 0); an index
\* past the end is ignored.
PaintList_set(list, idx, clip_rect, shape) ==
    IF Len(list) <= idx THEN list
    ELSE [list EXCEPT ![idx + 1] = ClippedShape(clip_rect, shape)]

\* Painter::paint_list: the writer acts on the list of self.layer_id.
Painter_paint_list(self, g, list) == [g EXCEPT ![self.layer_id] = list]

Painter_transform_shape(self, shape) ==
    LET tinted == IF self.fade_to_color.some
                  THEN tint_shape_towards(shape, self.fade_to_color.c)
                  ELSE shape
    IN  IF self.opacity_factor < One
        THEN multiply_opacity(tinted, self.opacity_factor)
        ELSE tinted

\* Mutant: an invisible painter stores nothing (as extend does).
Painter_add_skips_invisible(self, g, shape) ==
    IF self.fade_to_color = Some(TRANSPARENT) \/ self.opacity_factor = 0
    THEN [g |-> g, idx |-> Len(g[self.layer_id])]
    ELSE [g |-> Painter_paint_list(self, g,
                    Append(g[self.layer_id],
                           ClippedShape(self.clip_rect,
                                        Painter_transform_shape(self, shape)))),
          idx |-> Len(g[self.layer_id])]

\* Mutant: the new entry is put in front of the entries already stored.
Painter_add_in_front(self, g, shape) ==
    LET stored == IF self.fade_to_color = Some(TRANSPARENT) \/ self.opacity_factor = 0
                  THEN Noop
                  ELSE Painter_transform_shape(self, shape)
    IN  [g |-> Painter_paint_list(self, g,
                    <<ClippedShape(self.clip_rect, stored)>> \o g[self.layer_id]),
         idx |-> Len(g[self.layer_id])]

\* Painter::add: the graphics after the call and the ShapeIdx returned.
Painter_add(self, g, shape) ==
    LET stored == IF self.fade_to_color = Some(TRANSPARENT) \/ self.opacity_factor = 0
                  THEN Noop
                  ELSE Painter_transform_shape(self, shape)
        r == PaintList_add(g[self.layer_id], self.clip_rect, stored)
    IN  [g |-> Painter_paint_list(self, g, r.list), idx |-> r.idx]

\* Mutant: the shapes are transformed only when both a fade and an opacity apply.
Painter_extend_both(self, g, shapes) ==
    IF self.fade_to_color = Some(TRANSPARENT) \/ self.opacity_factor = 0 THEN g
    ELSE IF self.fade_to_color.some /\ self.opacity_factor < One
    THEN Painter_paint_list(self, g,
            PaintList_extend(g[self.layer_id], self.clip_rect,
                [i \in 1..Len(shapes) |-> Painter_transform_shape(self, shapes[i])]))
    ELSE Painter_paint_list(self, g,
            PaintList_extend(g[self.layer_id], self.clip_rect, shapes))

\* Painter::extend: the graphics after the call.
Painter_extend(self, g, shapes) ==
    IF self.fade_to_color = Some(TRANSPARENT) \/ self.opacity_factor = 0 THEN g
    ELSE IF self.fade_to_color.some \/ self.opacity_factor < One
    THEN Painter_paint_list(self, g,
            PaintList_extend(g[self.layer_id], self.clip_rect,
                [i \in 1..Len(shapes) |-> Painter_transform_shape(self, shapes[i])]))
    ELSE Painter_paint_list(self, g,
            PaintList_extend(g[self.layer_id], self.clip_rect, shapes))

\* Mutant: no early return for a painter faded to transparent.
Painter_set_always(self, g, idx, shape) ==
    Painter_paint_list(self, g,
        PaintList_set(g[self.layer_id], idx, self.clip_rect,
                      Painter_transform_shape(self, shape)))

\* Painter::set: the graphics after the call.
Painter_set(self, g, idx, shape) ==
    IF self.fade_to_color = Some(TRANSPARENT) THEN g
    ELSE Painter_paint_list(self, g,
            PaintList_set(g[self.layer_id], idx, self.clip_rect,
                          Painter_transform_shape(self, shape)))

----------------------------------------------------------------------------
(* Panels (crates/egui/src/containers/panel.rs): geometry and configuration *)

\* Panel and strip coordinates are whole numbers of 1/SubPoint of a point.
SubPoint == 2
\* Most top-level panels shown in one pass (the central panel included).
MaxPanels == 3
\* The animation progress how_expanded takes the values k / ProgressSteps.
ProgressSteps == 2

\* n points, in coordinate units.
Pt(n) == n * SubPoint

\* f32::INFINITY, above every coordinate of the model.
INFINITY == 1000000

Abs(x) == IF x >= 0 THEN x ELSE 0 - x
at_most(x, y) == Min2(x, y)
at_least(x, y) == Max2(x, y)

\* f32::round on x / SubPoint, in coordinate units: to the nearest whole
\* point, halves away from zero.
RoundUi(x) ==
    IF x >= 0 THEN ((2 * x + SubPoint) \div (2 * SubPoint)) * SubPoint
    ELSE 0 - (((2 * (0 - x) + SubPoint) \div (2 * SubPoint)) * SubPoint)

Rect_width(r) == r.max.x - r.min.x
Rect_height(r) == r.max.y - r.min.y
Rect_from_min_max(min, max) == [min |-> min, max |-> max]
Rect_round_ui(r) ==
    RectOf(RoundUi(r.min.x), RoundUi(r.min.y), RoundUi(r.max.x), RoundUi(r.max.y))

\* Option<Rect>, Option<f32>, Option<Pos2>
NoRect == [some |-> FALSE, v |-> RectOf(0, 0, 0, 0)]
SomeRect(r) == [some |-> TRUE, v |-> r]
NoF32 == [some |-> FALSE, v |-> 0]
SomeF32(x) == [some |-> TRUE, v |-> x]
NoPos == [some |-> FALSE, v |-> Pos(0, 0)]
SomePos(p) == [some |-> TRUE, v |-> p]

\* Id::new(name) and Id::with(salt).
Id_new(name) == [name |-> name, salt |-> ""]
Id_with(id, salt) == [name |-> id.name, salt |-> id.salt \o "/" \o salt]

Rangef(min, max) == [min |-> min, max |-> max]
Rangef_point(x) == Rangef(x, x)
\* Rangef::as_positive: min and max swapped if min > max.
Rangef_as_positive(range) ==
    Rangef(Min2(range.min, range.max), Max2(range.min, range.max))

\* A clamp that keeps only the lower end of the range.
clamp_to_range_lower(x, range) ==
    LET r == Rangef_as_positive(range)
    IN  IF x < r.min THEN r.min ELSE x

\* A clamp into the range as it is given, bounds unswapped.
clamp_to_range_unswapped(x, range) ==
    IF x < range.min THEN range.min ELSE IF x > range.max THEN range.max ELSE x

clamp_to_range(x, range) ==
    LET r == Rangef_as_positive(range)
    IN  IF x < r.min THEN r.min ELSE IF x > r.max THEN r.max ELSE x

\* The sum of the inner margins of a Frame, per axis.  Frame::side_top_panel
\* has margins 8 and 2 points, Frame::central_panel 8 points, Frame::NONE none.
Frame_side_top_panel == Pos(Pt(16), Pt(4))
Frame_central_panel == Pos(Pt(16), Pt(16))
Frame_NONE == Pos(0, 0)
\* Option<Frame>
NoFrame == [some |-> FALSE, v |-> Frame_NONE]
SomeFrame(f) == [some |-> TRUE, v |-> f]

\* style.spacing.interact_size.y and style.interaction.resize_grab_radius_side
interact_size_y == Pt(18)
resize_grab_radius_side == Pt(5)

(* Side *)
Side_opposite(self) == IF self = "Left" THEN "Right" ELSE "Left"
\* set_rect_width that measures every panel from the left edge.
Side_set_rect_width_from_left(self, rect, width) ==
    [rect EXCEPT !.max.x = rect.min.x + width]

Side_set_rect_width(self, rect, width) ==
    IF self = "Left" THEN [rect EXCEPT !.max.x = rect.min.x + width]
    ELSE [rect EXCEPT !.min.x = rect.max.x - width]
\* A side_x that always answers the left edge.
Side_side_x_left(self, rect) == rect.min.x

Side_side_x(self, rect) == IF self = "Left" THEN rect.min.x ELSE rect.max.x

(* SidePanel: the builder *)
SidePanel_new(side, id) ==
    [side |-> side, id |-> id, frame |-> NoFrame, resizable |-> TRUE,
     default_width |-> Pt(200), width_range |-> Rangef(Pt(96), INFINITY)]
SidePanel_left(id) == SidePanel_new("Left", id)
SidePanel_right(id) == SidePanel_new("Right", id)
SidePanel_resizable(self, resizable) == [self EXCEPT !.resizable = resizable]
SidePanel_default_width(self, default_width) ==
    [self EXCEPT !.default_width = default_width,
                 !.width_range = Rangef(at_most(self.width_range.min, default_width),
                                        at_least(self.width_range.max, default_width))]
\* A min_width that leaves the upper end of the range as it is.
SidePanel_min_width_lower_end_only(self, min_width) ==
    [self EXCEPT !.width_range = Rangef(min_width, self.width_range.max)]

SidePanel_min_width(self, min_width) ==
    [self EXCEPT !.width_range = Rangef(min_width,
                                        at_least(self.width_range.max, min_width))]
SidePanel_max_width(self, max_width) ==
    [self EXCEPT !.width_range = Rangef(at_most(self.width_range.min, max_width),
                                        max_width)]
SidePanel_width_range(self, width_range) ==
    [self EXCEPT !.default_width = clamp_to_range(self.default_width, width_range),
                 !.width_range = width_range]
\* An exact_width that sets only the width to start with.
SidePanel_exact_width_default_only(self, width) ==
    [self EXCEPT !.default_width = width]

SidePanel_exact_width(self, width) ==
    [self EXCEPT !.default_width = width, !.width_range = Rangef_point(width)]
SidePanel_frame(self, frame) == [self EXCEPT !.frame = SomeFrame(frame)]

(* TopBottomSide *)
TopBottomSide_opposite(self) == IF self = "Top" THEN "Bottom" ELSE "Top"
TopBottomSide_set_rect_height(self, rect, height) ==
    IF self = "Top" THEN [rect EXCEPT !.max.y = rect.min.y + height]
    ELSE [rect EXCEPT !.min.y = rect.max.y - height]
TopBottomSide_side_y(self, rect) == IF self = "Top" THEN rect.min.y ELSE rect.max.y

(* TopBottomPanel: the builder *)
TopBottomPanel_new(side, id) ==
    [side |-> side, id |-> id, frame |-> NoFrame, resizable |-> FALSE,
     default_height |-> NoF32, height_range |-> Rangef(Pt(20), INFINITY)]
TopBottomPanel_top(id) == TopBottomPanel_new("Top", id)
TopBottomPanel_bottom(id) == TopBottomPanel_new("Bottom", id)
TopBottomPanel_resizable(self, resizable) == [self EXCEPT !.resizable = resizable]
TopBottomPanel_default_height(self, default_height) ==
    [self EXCEPT !.default_height = SomeF32(default_height),
                 !.height_range = Rangef(at_most(self.height_range.min, default_height),
                                         at_least(self.height_range.max, default_height))]
TopBottomPanel_min_height(self, min_height) ==
    [self EXCEPT !.height_range = Rangef(min_height,
                                         at_least(self.height_range.max, min_height))]
TopBottomPanel_max_height(self, max_height) ==
    [self EXCEPT !.height_range = Rangef(at_most(self.height_range.min, max_height),
                                         max_height)]
TopBottomPanel_height_range(self, height_range) ==
    [self EXCEPT !.default_height =
                     IF self.default_height.some
                     THEN SomeF32(clamp_to_range(self.default_height.v, height_range))
                     ELSE NoF32,
                 !.height_range = height_range]
TopBottomPanel_exact_height(self, height) ==
    [self EXCEPT !.default_height = SomeF32(height),
                 !.height_range = Rangef_point(height)]
TopBottomPanel_frame(self, frame) == [self EXCEPT !.frame = SomeFrame(frame)]

\* CentralPanel::default()
CentralPanel_default == [frame |-> NoFrame]

(* A builder chain: the panel built so far, and the call that built it *)
NotBuilt == [kind |-> "none", panel |-> CentralPanel_default, op |-> "none", arg |-> 0]
Built(kind, panel, op, arg) == [kind |-> kind, panel |-> panel, op |-> op, arg |-> arg]
\* Finite extents a builder is called with: negative, zero, below, at and
\* above the defaults of the ranges.
BuilderArgs == {0 - Pt(10), 0, Pt(20), Pt(50), Pt(96), Pt(200), Pt(500)}

----------------------------------------------------------------------------
(* eframe: the event loop wrapper of run.rs *)

\* Result<T>
Ok(v) == [ok |-> TRUE, v |-> v]
Err(err) == [ok |-> FALSE, err |-> err]

\* The windows of the model; NoWindow is the id of no window.
WindowIds == {"w1", "w2"}
NoWindow == "none"
\* Instants, as ticks of the monotonic clock.
Instants == 0..MaxInstant
\* Cumulative pass numbers.
PassNrs == 0..MaxPassNr

\* EventResult
EventResult(tag, window_id, time) == [tag |-> tag, window_id |-> window_id, time |-> time]
EventResult_Wait == EventResult("Wait", NoWindow, 0)
EventResult_RepaintNow(window_id) == EventResult("RepaintNow", window_id, 0)
EventResult_RepaintNext(window_id) == EventResult("RepaintNext", window_id, 0)
EventResult_RepaintAt(window_id, repaint_time) ==
    EventResult("RepaintAt", window_id, repaint_time)
EventResult_Save == EventResult("Save", NoWindow, 0)
EventResult_Exit == EventResult("Exit", NoWindow, 0)

\* ControlFlow
ControlFlow(tag, until) == [tag |-> tag, until |-> until]
ControlFlow_Wait == ControlFlow("Wait", 0)
ControlFlow_Poll == ControlFlow("Poll", 0)
ControlFlow_WaitUntil(instant) == ControlFlow("WaitUntil", instant)

\* HashMap<WindowId, Instant>: a function on the keys it holds.
HashMap_default == [k \in {} |-> 0]
HashMap_insert(map, k, v) == [x \in DOMAIN map \cup {k} |-> IF x = k THEN v ELSE map[x]]
HashMap_retain(map, keep) == [x \in keep |-> map[x]]
HashMap_values(map) == { map[k] : k \in DOMAIN map }
Least(S) == CHOOSE x \in S : \A y \in S : x <= y

\* WinitAppWrapper::new
WinitAppWrapper_new(run_and_return) ==
    [windows_next_repaint_times |-> HashMap_default,
     return_result |-> Ok("()"),
     run_and_return |-> run_and_return]
\* The event loop before it runs: winit's default control flow, no exit asked.
EventLoop_new == [control_flow |-> ControlFlow_Poll, exit |-> FALSE]

\* What a handler has done so far: the wrapper and the event loop as it
\* left them, and the calls it made on the windows, the app and the process.
Effects(self, loop) ==
    [app |-> self, event_loop |-> loop,
     request_redraw |-> [w \in WindowIds |-> 0],
     save |-> 0, save_and_destroy |-> 0, process_exit |-> FALSE,
     matched |-> Err("none"), before |-> self.windows_next_repaint_times,
     scheduled |-> self.windows_next_repaint_times]

\* A check that sets no deadline for the entries it leaves.
check_redraw_requests_without_deadline(fx, now, windows) ==
    LET times == fx.app.windows_next_repaint_times
        due == { w \in DOMAIN times : ~(now < times[w]) }
    IN  [fx EXCEPT
            !.app.windows_next_repaint_times = HashMap_retain(times, DOMAIN times \ due),
            !.request_redraw = [w \in WindowIds |->
                                   IF w \in due \cap windows THEN @[w] + 1 ELSE @[w]],
            !.event_loop.control_flow = IF due # {} THEN ControlFlow_Poll ELSE @]

\* A check that keeps the entries that fall due at the instant it samples.
check_redraw_requests_keeping_due(fx, now, windows) ==
    LET times == fx.app.windows_next_repaint_times
        due == { w \in DOMAIN times : times[w] < now }
    IN  [fx EXCEPT
            !.app.windows_next_repaint_times = HashMap_retain(times, DOMAIN times \ due),
            !.request_redraw = [w \in WindowIds |->
                                   IF w \in due \cap windows THEN @[w] + 1 ELSE @[w]],
            !.event_loop.control_flow =
                IF DOMAIN times \ due # {}
                THEN ControlFlow_WaitUntil(
                         Least({ times[w] : w \in DOMAIN times \ due }))
                ELSE IF due # {} THEN ControlFlow_Poll ELSE @]

\* WinitAppWrapper::check_redraw_requests, sampling `now`; `windows` are
\* the ids winit_app.window() finds a window for.
check_redraw_requests(fx, now, windows) ==
    LET times == fx.app.windows_next_repaint_times
        due == { w \in DOMAIN times : ~(now < times[w]) }
    IN  [fx EXCEPT
            !.app.windows_next_repaint_times = HashMap_retain(times, DOMAIN times \ due),
            !.request_redraw = [w \in WindowIds |->
                                   IF w \in due \cap windows THEN @[w] + 1 ELSE @[w]],
            !.event_loop.control_flow =
                IF DOMAIN times \ due # {}
                THEN ControlFlow_WaitUntil(
                         Least({ times[w] : w \in DOMAIN times \ due }))
                ELSE IF due # {} THEN ControlFlow_Poll ELSE @]

\* handle_event_result, lines 98-106: on Windows a RepaintNow is entered
\* in the map and painted at once; `painted` is what run_ui_and_paint
\* returned, which is the result handled from there on.
RepaintsAtOnce(target_windows, event_result) ==
    target_windows /\ event_result.ok /\ event_result.v.tag = "RepaintNow"
repaint_now_on_windows(fx, event_result, at) ==
    [fx EXCEPT !.app.windows_next_repaint_times =
                   HashMap_insert(@, event_result.v.window_id, at),
               !.before = HashMap_insert(@, event_result.v.window_id, at)]

\* A RepaintAt that replaces the time scheduled before.
repaint_at_overwriting(times, window_id, repaint_time) ==
    HashMap_insert(times, window_id, repaint_time)

\* handle_event_result, lines 127-134: the earlier of the time scheduled
\* and the time asked for.
repaint_at(times, window_id, repaint_time) ==
    HashMap_insert(times, window_id,
                   IF window_id \in DOMAIN times
                   THEN Min2(times[window_id], repaint_time)
                   ELSE repaint_time)

\* handle_event_result, lines 108-142: the match on an Ok result.
match_event_result(fx, event_result, at) ==
    IF ~event_result.ok THEN fx
    ELSE IF event_result.v.tag = "Wait"
    THEN [fx EXCEPT !.event_loop.control_flow = ControlFlow_Wait]
    ELSE IF event_result.v.tag \in {"RepaintNow", "RepaintNext"}
    THEN [fx EXCEPT !.app.windows_next_repaint_times =
                        HashMap_insert(@, event_result.v.window_id, at)]
    ELSE IF event_result.v.tag = "RepaintAt"
    THEN [fx EXCEPT !.app.windows_next_repaint_times =
                        repaint_at(@, event_result.v.window_id, event_result.v.time)]
    ELSE fx

\* An error that asks to exit but is not recorded.
record_error_unrecorded(fx, combined_result) ==
    [fx EXCEPT !.matched = combined_result,
               !.scheduled = fx.app.windows_next_repaint_times]

\* handle_event_result, lines 144-148, with what the match has scheduled.
record_error(fx, combined_result) ==
    [fx EXCEPT !.matched = combined_result,
               !.scheduled = fx.app.windows_next_repaint_times,
               !.app.return_result =
                   IF combined_result.ok THEN @ ELSE Err(combined_result.err)]

\* handle_event_result, lines 150-168: save, and exit the loop or the process.
save_and_exit(fx, save, exit) ==
    [fx EXCEPT !.save = IF save THEN @ + 1 ELSE @,
               !.event_loop.exit = @ \/ (exit /\ fx.app.run_and_return),
               !.save_and_destroy = IF exit /\ ~fx.app.run_and_return THEN @ + 1 ELSE @,
               !.process_exit = exit /\ ~fx.app.run_and_return]

\* handle_event_result, line 170: reached unless std::process::exit was called.
check_unless_exited(fx, now, windows) ==
    IF fx.process_exit THEN fx ELSE check_redraw_requests(fx, now, windows)

\* handle_event_result, from the match on.
handle_matched(fx, event_result, now, windows) ==
    check_unless_exited(
        save_and_exit(fx, event_result.ok /\ event_result.v.tag = "Save",
                      ~event_result.ok \/ event_result.v.tag = "Exit"),
        now, windows)

\* WinitAppWrapper::handle_event_result; at0, at1 and now are the instants
\* its calls of Instant::now() sample, in this order.
handle_event_result(fx, target_windows, event_result, painted, at0, at1, now, windows) ==
    IF RepaintsAtOnce(target_windows, event_result)
    THEN handle_matched(
             record_error(match_event_result(
                              repaint_now_on_windows(fx, event_result, at0), painted, at1),
                          painted),
             painted, now, windows)
    ELSE handle_matched(record_error(match_event_result(fx, event_result, at1),
                                     event_result),
                        event_result, now, windows)

\* UserEvent::RequestRepaint
RequestRepaint(when, cumulative_pass_nr, viewport_id) ==
    [when |-> when, cumulative_pass_nr |-> cumulative_pass_nr, viewport_id |-> viewport_id]
NoRequest == RequestRepaint(0, 0, "none")
\* What the app answered about the viewport of a request.
Answered(current_pass_nr, window_id) ==
    [current_pass_nr |-> current_pass_nr, window_id |-> window_id]
NoAnswer == Answered(0, NoWindow)

\* A request that is scheduled whatever pass it was made in.
user_event_result_any_pass(event, current_pass_nr, window_id) ==
    IF window_id # NoWindow
    THEN Ok(EventResult_RepaintAt(window_id, event.when))
    ELSE Ok(EventResult_Wait)

\* WinitAppWrapper::user_event, lines 251-276: the result it hands to
\* handle_event_result.  current_pass_nr is what
\* egui_ctx().map_or(0, |ctx| ctx.cumulative_pass_nr_for(viewport_id))
\* gave, window_id what window_id_from_viewport_id gave.
user_event_result(event, current_pass_nr, window_id) ==
    IF current_pass_nr = event.cumulative_pass_nr
       \/ current_pass_nr = event.cumulative_pass_nr + 1
    THEN IF window_id # NoWindow
         THEN Ok(EventResult_RepaintAt(window_id, event.when))
         ELSE Ok(EventResult_Wait)
    ELSE Ok(EventResult_Wait)

\* The process before a run: no loop has returned anything yet.
NotStarted ==
    [state |-> "new", target_windows |-> FALSE, loop_result |-> Ok("()"),
     returned |-> Err("none")]
\* The last handler: its name, the result it was given, the request and the
\* answers of the app if it was user_event, what it did, the instant its
\* check_redraw_requests sampled, and whether any handler has failed so far.
Handled(op, event_result, request, answer, fx, now, windows, failed) ==
    [op |-> op, event_result |-> event_result, request |-> request, answer |-> answer,
     matched |-> fx.matched, before |-> fx.before, scheduled |-> fx.scheduled,
     request_redraw |-> fx.request_redraw, save |-> fx.save,
     save_and_destroy |-> fx.save_and_destroy, now |-> now, windows |-> windows,
     failed |-> failed]
NoHandler ==
    Handled("none", Ok(EventResult_Wait), NoRequest, NoAnswer,
            Effects(WinitAppWrapper_new(FALSE), EventLoop_new), 0, {}, FALSE)

----------------------------------------------------------------------------
(* Panels: the context a panel call acts on, and what is outside panel.rs *)

\* The cursor icon a call asks the context for (ctx.set_cursor_icon), if any.
NoIcon == [some |-> FALSE, v |-> "Default"]
\* An icon that never tells the direction.
SomeIcon_bidirectional(icon) == [some |-> TRUE, v |-> "ResizeHorizontal"]

SomeIcon(icon) == [some |-> TRUE, v |-> icon]

\* What a panel call reads and writes: the pass's available rect, the
\* persisted PanelStates, the cursor rect of the parent Ui, and the log of
\* the calls it made into the context, the Ui and the content callback.
World(available, data, ui_cursor) ==
    [available_rect |-> available, persisted |-> data, cursor |-> ui_cursor,
     cursor_icon |-> NoIcon, log |-> <<>>]
Event(ev, id, rect) == [ev |-> ev, id |-> id, rect |-> rect]
Logged(w, ev, id, rect) == [w EXCEPT !.log = Append(@, Event(ev, id, rect))]
NoId == Id_new("")
\* The content callback `content` ran in the Ui of the panel under `id`.
Ran(w, id, rect, content) ==
    [w EXCEPT !.log = Append(@, [ev |-> "add_contents", id |-> id, rect |-> rect,
                                 content |-> content])]
\* |ui| add_contents(ui, how_expanded): the callback with the progress bound.
Content_at(content, how_expanded) == [content EXCEPT !.progress = SomeF32(how_expanded)]

\* PanelState::load / PanelState::store
\* A load that finds nothing.
PanelState_load_nothing(w, bar_id) == NoRect

PanelState_load(w, bar_id) == w.persisted[bar_id]
\* A store that keeps what is already stored under the id.
PanelState_store_once(w, bar_id, rect) ==
    Logged(IF w.persisted[bar_id].some THEN w
           ELSE [w EXCEPT !.persisted[bar_id] = SomeRect(rect)],
           "store", bar_id, rect)

\* A store that writes the rect rounded to whole points.
PanelState_store_rounded(w, bar_id, rect) ==
    Logged([w EXCEPT !.persisted[bar_id] = SomeRect(Rect_round_ui(rect))],
           "store", bar_id, Rect_round_ui(rect))

PanelState_store(w, bar_id, rect) ==
    Logged([w EXCEPT !.persisted[bar_id] = SomeRect(rect)], "store", bar_id, rect)

\* PassState::allocate_*_panel: the available rect ends where the panel does.
PassState_allocate_left_panel(w, panel_rect) ==
    Logged([w EXCEPT !.available_rect.min.x = panel_rect.max.x],
           "allocate_left_panel", NoId, panel_rect)
PassState_allocate_right_panel(w, panel_rect) ==
    Logged([w EXCEPT !.available_rect.max.x = panel_rect.min.x],
           "allocate_right_panel", NoId, panel_rect)
PassState_allocate_top_panel(w, panel_rect) ==
    Logged([w EXCEPT !.available_rect.min.y = panel_rect.max.y],
           "allocate_top_panel", NoId, panel_rect)
PassState_allocate_bottom_panel(w, panel_rect) ==
    Logged([w EXCEPT !.available_rect.max.y = panel_rect.min.y],
           "allocate_bottom_panel", NoId, panel_rect)
\* The central panel does not shrink the available rect.
PassState_allocate_central_panel(w, panel_rect) ==
    Logged(w, "allocate_central_panel", NoId, panel_rect)

\* The content callback, by the size its widgets take inside the frame: at
\* least `size`, and if `fill`, at least all the space it is offered.
Content(fill, x, y) == [fill |-> fill, size |-> Pos(x, y), progress |-> NoF32]
EmptyContent == Content(FALSE, 0, 0)

\* The size a frame with margins `margin` leaves to its content in `outer`.
Frame_inner_size(margin, outer) ==
    Pos(Rect_width(outer) - margin.x, Rect_height(outer) - margin.y)

\* Frame::show in a top-down, left-aligned Ui whose max rect is `outer`: the
\* response rect starts at outer.min and is the content Ui's min rect (the
\* content, but at least min_size) plus the margins.
Frame_show(margin, outer, min_size, content) ==
    LET inner == Frame_inner_size(margin, outer)
        cx == IF content.fill THEN Max2(inner.x, content.size.x) ELSE content.size.x
        cy == IF content.fill THEN Max2(inner.y, content.size.y) ELSE content.size.y
        w == Max2(Max2(cx, min_size.x), 0) + margin.x
        h == Max2(Max2(cy, min_size.y), 0) + margin.y
    IN  RectOf(outer.min.x, outer.min.y, outer.min.x + w, outer.min.y + h)

\* What the context answers about the resize handle during a show call.
\* ctx.read_response(resize_id), before the content: the interaction
\* recorded for the handle in the previous pass, if any, by whether it is
\* dragged and where the pointer is.  ui.interact(resize_rect, resize_id, ..),
\* after the content: whether the handle is hovered and dragged.
Interact(hovered, dragged) == [hovered |-> hovered, dragged |-> dragged]
NoInteract == Interact(FALSE, FALSE)
NoResponse ==
    [some |-> FALSE, dragged |-> FALSE, pointer |-> NoPos, interact |-> NoInteract]
Response(dragged, pointer) ==
    [some |-> TRUE, dragged |-> dragged, pointer |-> pointer, interact |-> NoInteract]
Interacting(response, hovered, dragged) ==
    [response EXCEPT !.interact = Interact(hovered, dragged)]

\* What a show call gives back: the context after it, the response rect,
\* and the panel rect and extent decided before the content ran.
Shown(w, rect, panel_rect, extent) ==
    [w |-> w, rect |-> rect, panel_rect |-> panel_rect, extent |-> extent]

----------------------------------------------------------------------------
(* SidePanel: show *)

SidePanel_show_inside_dyn(self, w, response, content) ==
    LET available == w.cursor
        state == PanelState_load(w, self.id)
        width0 == IF state.some THEN Rect_width(state.v) ELSE self.default_width
        width1 == at_most(clamp_to_range(width0, self.width_range),
                          Rect_width(available))
        panel_rect1 == Side_set_rect_width(self.side, available, width1)
        w1 == Logged(w, "check_for_id_clash", self.id, panel_rect1)
        resize_id == Id_with(self.id, "__resize")
        is_resizing == self.resizable /\ response.some /\ response.dragged
        dragged_to == is_resizing /\ response.pointer.some
        width == IF dragged_to
                 THEN at_most(clamp_to_range(
                                  Abs(response.pointer.v.x
                                      - Side_side_x(self.side, panel_rect1)),
                                  self.width_range),
                              Rect_width(available))
                 ELSE width1
        panel_rect2 == IF dragged_to
                       THEN Side_set_rect_width(self.side, panel_rect1, width)
                       ELSE panel_rect1
        frame == IF self.frame.some THEN self.frame.v ELSE Frame_side_top_panel
        \* what follows the contents, whose frame took rect
        after_contents(w2, panel_rect, rect) ==
            LET w3 == [w2 EXCEPT !.cursor =
                          IF self.side = "Left"
                          THEN [w2.cursor EXCEPT !.min.x = rect.max.x]
                          ELSE [w2.cursor EXCEPT !.max.x = rect.min.x]]
                resize_x == Side_side_x(Side_opposite(self.side), panel_rect)
                resize_rect == RectOf(resize_x - resize_grab_radius_side,
                                      panel_rect.min.y,
                                      resize_x + resize_grab_radius_side,
                                      panel_rect.max.y)
                w4 == IF self.resizable
                      THEN Logged(w3, "interact", resize_id, resize_rect)
                      ELSE w3
                resize_hover == self.resizable /\ response.interact.hovered
                is_resizing_now == self.resizable /\ response.interact.dragged
                cursor_icon == IF width <= self.width_range.min
                               THEN (IF self.side = "Left" THEN "ResizeEast"
                                     ELSE "ResizeWest")
                               ELSE IF width < self.width_range.max
                               THEN "ResizeHorizontal"
                               ELSE (IF self.side = "Left" THEN "ResizeWest"
                                     ELSE "ResizeEast")
                w5 == IF resize_hover \/ is_resizing_now
                      THEN [w4 EXCEPT !.cursor_icon = SomeIcon(cursor_icon)]
                      ELSE w4
            IN  Shown(PanelState_store(w5, self.id, rect), rect, panel_rect, width)
        \* the panel Ui on the rounded panel rect
        panel_ui(panel_rect) ==
            after_contents(
                Ran(w1, self.id, panel_rect, content),
                panel_rect,
                Frame_show(frame, panel_rect,
                           Pos(at_least(self.width_range.min - frame.x, 0),
                               Frame_inner_size(frame, panel_rect).y),
                           content))
    IN  panel_ui(Rect_round_ui(panel_rect2))

\* A show that tells the pass nothing of what the panel took.
SidePanel_show_dyn_unallocated(self, w, response, content) ==
    LET unallocated(inner) == [inner EXCEPT !.w = [inner.w EXCEPT !.cursor = w.cursor]]
    IN  unallocated(SidePanel_show_inside_dyn(
                        self, [w EXCEPT !.cursor = w.available_rect], response, content))

\* A show that senses its handle before the content: a drag of this pass,
\* with the pointer 150 points from the origin, decides the extent at once.
SidePanel_show_dyn_same_pass(self, w, response, content) ==
    LET available == w.available_rect
        sensed == IF response.interact.dragged
                  THEN [response EXCEPT !.some = TRUE, !.dragged = TRUE,
                                        !.pointer = SomePos(Pos(Pt(150), Pt(150)))]
                  ELSE response
        allocate(inner, rect, w1) ==
            [inner EXCEPT !.w =
                IF self.side = "Left"
                THEN PassState_allocate_left_panel(
                         w1, Rect_from_min_max(available.min, rect.max))
                ELSE PassState_allocate_right_panel(
                         w1, Rect_from_min_max(rect.min, available.max))]
        shown_inside(inner) ==
            allocate(inner, inner.rect, [inner.w EXCEPT !.cursor = w.cursor])
    IN  shown_inside(SidePanel_show_inside_dyn(
                         self, [w EXCEPT !.cursor = available], sensed, content))

\* The panel Ui is a new top-level Ui over the available rect: the cursor of
\* no other Ui moves.
SidePanel_show_dyn(self, w, response, content) ==
    LET available == w.available_rect
        allocate(inner, rect, w1) ==
            [inner EXCEPT !.w =
                IF self.side = "Left"
                THEN PassState_allocate_left_panel(
                         w1, Rect_from_min_max(available.min, rect.max))
                ELSE PassState_allocate_right_panel(
                         w1, Rect_from_min_max(rect.min, available.max))]
        shown_inside(inner) ==
            allocate(inner, inner.rect, [inner.w EXCEPT !.cursor = w.cursor])
    IN  shown_inside(SidePanel_show_inside_dyn(
                         self, [w EXCEPT !.cursor = available], response, content))

----------------------------------------------------------------------------
(* SidePanel: the animated variants.  how_expanded is the progress          *)
(* animate_expansion returned, in steps of 1 / ProgressSteps.               *)

\* Option<InnerResponse<R>>, by the response rect.
Returned(w, ret) == [w |-> w, ret |-> ret]

\* how_expanded * extent, and lerp(a..=b, how_expanded)
Scaled(how_expanded, extent) == (how_expanded * extent) \div ProgressSteps
lerp(a, b, how_expanded) ==
    ((ProgressSteps - how_expanded) * a + how_expanded * b) \div ProgressSteps

\* An expanded width that is always the configured one.
SidePanel_stored_width_configured(self, w) == self.default_width

SidePanel_stored_width(self, w) ==
    IF PanelState_load(w, self.id).some
    THEN Rect_width(PanelState_load(w, self.id).v)
    ELSE self.default_width

\* The fake panel of the in-between state.
SidePanel_fake(self, fake_width) ==
    SidePanel_exact_width(
        SidePanel_resizable([self EXCEPT !.id = Id_with(self.id, "animating_panel")],
                            FALSE),
        fake_width)

\* An animation that shows the fake panel under the panel's own id.
SidePanel_show_animated_same_id(self, w, how_expanded, response, content) ==
    IF how_expanded = 0 THEN Returned(w, NoRect)
    ELSE IF how_expanded < ProgressSteps
    THEN Returned(SidePanel_show_dyn(
                      SidePanel_exact_width(SidePanel_resizable(self, FALSE),
                          Scaled(how_expanded, SidePanel_stored_width(self, w))),
                      w, response, EmptyContent).w,
                  NoRect)
    ELSE Returned(SidePanel_show_dyn(self, w, response, content).w,
                  SomeRect(SidePanel_show_dyn(self, w, response, content).rect))

\* An animation that shows the fake panel also when the progress is 0.0.
SidePanel_show_animated_never_hidden(self, w, how_expanded, response, content) ==
    IF how_expanded < ProgressSteps
    THEN Returned(SidePanel_show_dyn(
                      SidePanel_fake(self, Scaled(how_expanded,
                                                  SidePanel_stored_width(self, w))),
                      w, response, EmptyContent).w,
                  NoRect)
    ELSE Returned(SidePanel_show_dyn(self, w, response, content).w,
                  SomeRect(SidePanel_show_dyn(self, w, response, content).rect))

\* An animation whose last step still shows the fake panel.
SidePanel_show_animated_fake_at_end(self, w, how_expanded, response, content) ==
    IF how_expanded = 0 THEN Returned(w, NoRect)
    ELSE Returned(SidePanel_show_dyn(
                      SidePanel_fake(self, Scaled(how_expanded,
                                                  SidePanel_stored_width(self, w))),
                      w, response, content).w,
                  IF how_expanded < ProgressSteps THEN NoRect
                  ELSE SomeRect(SidePanel_show_dyn(
                                    SidePanel_fake(self, Scaled(how_expanded,
                                        SidePanel_stored_width(self, w))),
                                    w, response, content).rect))

SidePanel_show_animated(self, w, how_expanded, response, content) ==
    IF how_expanded = 0 THEN Returned(w, NoRect)
    ELSE IF how_expanded < ProgressSteps
    THEN Returned(SidePanel_show_dyn(
                      SidePanel_fake(self, Scaled(how_expanded,
                                                  SidePanel_stored_width(self, w))),
                      w, response, EmptyContent).w,
                  NoRect)
    ELSE Returned(SidePanel_show_dyn(self, w, response, content).w,
                  SomeRect(SidePanel_show_dyn(self, w, response, content).rect))

SidePanel_show_animated_inside(self, w, how_expanded, response, content) ==
    IF how_expanded = 0 THEN Returned(w, NoRect)
    ELSE IF how_expanded < ProgressSteps
    THEN Returned(SidePanel_show_inside_dyn(
                      SidePanel_fake(self, Scaled(how_expanded,
                                                  SidePanel_stored_width(self, w))),
                      w, response, EmptyContent).w,
                  NoRect)
    ELSE Returned(SidePanel_show_inside_dyn(self, w, response, content).w,
                  SomeRect(SidePanel_show_inside_dyn(self, w, response, content).rect))

\* An animation between two panels that runs the callback only once a real
\* panel is shown: the fake panel in between is empty.
SidePanel_show_animated_between_empty_fake(w, how_expanded, collapsed_panel, expanded_panel, response, content) ==
    LET add_contents == Content_at(content, how_expanded)
    IN  IF how_expanded = 0
        THEN Returned(SidePanel_show_dyn(collapsed_panel, w, response, add_contents).w,
                      SomeRect(SidePanel_show_dyn(collapsed_panel, w, response,
                                                  add_contents).rect))
        ELSE IF how_expanded < ProgressSteps
        THEN Returned(SidePanel_show_dyn(
                          SidePanel_fake(expanded_panel,
                                         lerp(SidePanel_stored_width(collapsed_panel, w),
                                              SidePanel_stored_width(expanded_panel, w),
                                              how_expanded)),
                          w, response, EmptyContent).w,
                      NoRect)
        ELSE Returned(SidePanel_show_dyn(expanded_panel, w, response, add_contents).w,
                      SomeRect(SidePanel_show_dyn(expanded_panel, w, response,
                                                  add_contents).rect))

SidePanel_show_animated_between(w, how_expanded, collapsed_panel, expanded_panel, response, content) ==
    LET add_contents == Content_at(content, how_expanded)
    IN  IF how_expanded = 0
        THEN Returned(SidePanel_show_dyn(collapsed_panel, w, response, add_contents).w,
                      SomeRect(SidePanel_show_dyn(collapsed_panel, w, response,
                                                  add_contents).rect))
        ELSE IF how_expanded < ProgressSteps
        THEN Returned(SidePanel_show_dyn(
                          SidePanel_fake(expanded_panel,
                                         lerp(SidePanel_stored_width(collapsed_panel, w),
                                              SidePanel_stored_width(expanded_panel, w),
                                              how_expanded)),
                          w, response, add_contents).w,
                      NoRect)
        ELSE Returned(SidePanel_show_dyn(expanded_panel, w, response, add_contents).w,
                      SomeRect(SidePanel_show_dyn(expanded_panel, w, response,
                                                  add_contents).rect))

\* Always an InnerResponse: also the fake panel's.
SidePanel_show_animated_between_inside(w, how_expanded, collapsed_panel, expanded_panel, response, content) ==
    LET add_contents == Content_at(content, how_expanded)
    IN  LET panel == IF how_expanded = 0 THEN collapsed_panel
                     ELSE IF how_expanded < ProgressSteps
                     THEN SidePanel_fake(expanded_panel,
                                         lerp(SidePanel_stored_width(collapsed_panel, w),
                                              SidePanel_stored_width(expanded_panel, w),
                                              how_expanded))
                     ELSE expanded_panel
            inner == SidePanel_show_inside_dyn(panel, w, response, add_contents)
        IN  Returned(inner.w, SomeRect(inner.rect))

----------------------------------------------------------------------------
(* TopBottomPanel: show *)

TopBottomPanel_show_inside_dyn(self, w, response, content) ==
    LET frame == IF self.frame.some THEN self.frame.v ELSE Frame_side_top_panel
        available == w.cursor
        state == PanelState_load(w, self.id)
        height0 == IF state.some THEN Rect_height(state.v)
                   ELSE IF self.default_height.some THEN self.default_height.v
                   ELSE interact_size_y + frame.y
        height1 == at_most(clamp_to_range(height0, self.height_range),
                           Rect_height(available))
        panel_rect1 == TopBottomSide_set_rect_height(self.side, available, height1)
        w1 == Logged(w, "check_for_id_clash", self.id, panel_rect1)
        resize_id == Id_with(self.id, "__resize")
        is_resizing == self.resizable /\ response.some /\ response.dragged
        dragged_to == is_resizing /\ response.pointer.some
        height == IF dragged_to
                  THEN at_most(clamp_to_range(
                                   Abs(response.pointer.v.y
                                       - TopBottomSide_side_y(self.side, panel_rect1)),
                                   self.height_range),
                               Rect_height(available))
                  ELSE height1
        panel_rect2 == IF dragged_to
                       THEN TopBottomSide_set_rect_height(self.side, panel_rect1, height)
                       ELSE panel_rect1
        \* what follows the contents, whose frame took rect
        after_contents(w2, panel_rect, rect) ==
            LET w3 == [w2 EXCEPT !.cursor =
                          IF self.side = "Top"
                          THEN [w2.cursor EXCEPT !.min.y = rect.max.y]
                          ELSE [w2.cursor EXCEPT !.max.y = rect.min.y]]
                resize_y == TopBottomSide_side_y(TopBottomSide_opposite(self.side),
                                                 panel_rect)
                resize_rect == RectOf(panel_rect.min.x,
                                      resize_y - resize_grab_radius_side,
                                      panel_rect.max.x,
                                      resize_y + resize_grab_radius_side)
                w4 == IF self.resizable
                      THEN Logged(w3, "interact", resize_id, resize_rect)
                      ELSE w3
                resize_hover == self.resizable /\ response.interact.hovered
                is_resizing_now == self.resizable /\ response.interact.dragged
                cursor_icon == IF height <= self.height_range.min
                               THEN (IF self.side = "Top" THEN "ResizeSouth"
                                     ELSE "ResizeNorth")
                               ELSE IF height < self.height_range.max
                               THEN "ResizeVertical"
                               ELSE (IF self.side = "Top" THEN "ResizeNorth"
                                     ELSE "ResizeSouth")
                w5 == IF resize_hover \/ is_resizing_now
                      THEN [w4 EXCEPT !.cursor_icon = SomeIcon(cursor_icon)]
                      ELSE w4
            IN  Shown(PanelState_store(w5, self.id, rect), rect, panel_rect, height)
        \* the panel Ui on the rounded panel rect
        panel_ui(panel_rect) ==
            after_contents(
                Ran(w1, self.id, panel_rect, content),
                panel_rect,
                Frame_show(frame, panel_rect,
                           Pos(Frame_inner_size(frame, panel_rect).x,
                               at_least(self.height_range.min - frame.y, 0)),
                           content))
    IN  panel_ui(Rect_round_ui(panel_rect2))

\* A show that reports an empty region at the panel's edge.
TopBottomPanel_show_dyn_empty_region(self, w, response, content) ==
    LET available == w.available_rect
        allocate(inner, w1) ==
            [inner EXCEPT !.w =
                IF self.side = "Top"
                THEN PassState_allocate_top_panel(
                         w1, Rect_from_min_max(available.min, available.min))
                ELSE PassState_allocate_bottom_panel(
                         w1, Rect_from_min_max(available.max, available.max))]
        shown_inside(inner) == allocate(inner, [inner.w EXCEPT !.cursor = w.cursor])
    IN  shown_inside(TopBottomPanel_show_inside_dyn(
                         self, [w EXCEPT !.cursor = available], response, content))

TopBottomPanel_show_dyn(self, w, response, content) ==
    LET available == w.available_rect
        allocate(inner, rect, w1) ==
            [inner EXCEPT !.w =
                IF self.side = "Top"
                THEN PassState_allocate_top_panel(
                         w1, Rect_from_min_max(available.min, rect.max))
                ELSE PassState_allocate_bottom_panel(
                         w1, Rect_from_min_max(rect.min, available.max))]
        shown_inside(inner) ==
            allocate(inner, inner.rect, [inner.w EXCEPT !.cursor = w.cursor])
    IN  shown_inside(TopBottomPanel_show_inside_dyn(
                         self, [w EXCEPT !.cursor = available], response, content))

----------------------------------------------------------------------------
(* TopBottomPanel: the animated variants *)

\* The stored height, else the configured default, else interact_size.y.
TopBottomPanel_stored_height(self, w) ==
    IF PanelState_load(w, self.id).some
    THEN Rect_height(PanelState_load(w, self.id).v)
    ELSE IF self.default_height.some THEN self.default_height.v
    ELSE interact_size_y

TopBottomPanel_fake(self, fake_height) ==
    TopBottomPanel_exact_height(
        TopBottomPanel_resizable(
            [self EXCEPT !.id = Id_with(self.id, "animating_panel")], FALSE),
        fake_height)

TopBottomPanel_show_animated(self, w, how_expanded, response, content) ==
    IF how_expanded = 0 THEN Returned(w, NoRect)
    ELSE IF how_expanded < ProgressSteps
    THEN Returned(TopBottomPanel_show_dyn(
                      TopBottomPanel_fake(self, Scaled(how_expanded,
                          TopBottomPanel_stored_height(self, w))),
                      w, response, EmptyContent).w,
                  NoRect)
    ELSE Returned(TopBottomPanel_show_dyn(self, w, response, content).w,
                  SomeRect(TopBottomPanel_show_dyn(self, w, response, content).rect))

TopBottomPanel_show_animated_inside(self, w, how_expanded, response, content) ==
    IF how_expanded = 0 THEN Returned(w, NoRect)
    ELSE IF how_expanded < ProgressSteps
    THEN Returned(TopBottomPanel_show_inside_dyn(
                      TopBottomPanel_fake(self, Scaled(how_expanded,
                          TopBottomPanel_stored_height(self, w))),
                      w, response, EmptyContent).w,
                  NoRect)
    ELSE Returned(TopBottomPanel_show_inside_dyn(self, w, response, content).w,
                  SomeRect(TopBottomPanel_show_inside_dyn(self, w, response,
                                                          content).rect))

TopBottomPanel_show_animated_between(w, how_expanded, collapsed_panel, expanded_panel, response, content) ==
    LET add_contents == Content_at(content, how_expanded)
    IN  IF how_expanded = 0
        THEN Returned(TopBottomPanel_show_dyn(collapsed_panel, w, response, add_contents).w,
                      SomeRect(TopBottomPanel_show_dyn(collapsed_panel, w, response,
                                                       add_contents).rect))
        ELSE IF how_expanded < ProgressSteps
        THEN Returned(TopBottomPanel_show_dyn(
                          TopBottomPanel_fake(expanded_panel,
                              lerp(TopBottomPanel_stored_height(collapsed_panel, w),
                                   TopBottomPanel_stored_height(expanded_panel, w),
                                   how_expanded)),
                          w, response, add_contents).w,
                      NoRect)
        ELSE Returned(TopBottomPanel_show_dyn(expanded_panel, w, response, add_contents).w,
                      SomeRect(TopBottomPanel_show_dyn(expanded_panel, w, response,
                                                       add_contents).rect))

TopBottomPanel_show_animated_between_inside(w, how_expanded, collapsed_panel, expanded_panel, response, content) ==
    LET add_contents == Content_at(content, how_expanded)
    IN  LET panel == IF how_expanded = 0 THEN collapsed_panel
                     ELSE IF how_expanded < ProgressSteps
                     THEN TopBottomPanel_fake(expanded_panel,
                              lerp(TopBottomPanel_stored_height(collapsed_panel, w),
                                   TopBottomPanel_stored_height(expanded_panel, w),
                                   how_expanded))
                     ELSE expanded_panel
            inner == TopBottomPanel_show_inside_dyn(panel, w, response, add_contents)
        IN  Returned(inner.w, SomeRect(inner.rect))

----------------------------------------------------------------------------
(* CentralPanel *)

\* No extent, no PanelState, no resize handle: the panel rect is all of the
\* parent Ui's available rect, and the frame is expanded to include it.
CentralPanel_show_inside_dyn(self, w, content) ==
    LET panel_rect == w.cursor
        frame == IF self.frame.some THEN self.frame.v ELSE Frame_central_panel
        rect == Frame_show(frame, panel_rect, Frame_inner_size(frame, panel_rect),
                           content)
    IN  Shown(Ran(w, NoId, panel_rect, content), rect, panel_rect, 0)

\* A central panel laid out on the available rect as it is, unrounded.
CentralPanel_show_dyn_unrounded(self, w, content) ==
    LET inner == CentralPanel_show_inside_dyn(
                     self, [w EXCEPT !.cursor = w.available_rect], content)
        w1 == [inner.w EXCEPT !.cursor = w.cursor]
    IN  [inner EXCEPT !.w = PassState_allocate_central_panel(w1, inner.rect)]

CentralPanel_show_dyn(self, w, content) ==
    LET inner == CentralPanel_show_inside_dyn(
                     self, [w EXCEPT !.cursor = Rect_round_ui(w.available_rect)],
                     content)
        w1 == [inner.w EXCEPT !.cursor = w.cursor]
    IN  [inner EXCEPT !.w = PassState_allocate_central_panel(w1, inner.rect)]

----------------------------------------------------------------------------
(* StripLayout (crates/egui_extras/src/layout.rs) *)

\* Most cells on one line, and most lines, of the strip.
MaxCells == 3
MaxLines == 2

\* CellSize
Absolute(size) == [remainder |-> FALSE, size |-> size]
Remainder == [remainder |-> TRUE, size |-> 0]

StripLayoutFlags(clip, striped, hovered, selected, overline, sizing_pass) ==
    [clip |-> clip, striped |-> striped, hovered |-> hovered,
     selected |-> selected, overline |-> overline, sizing_pass |-> sizing_pass]

\* The Ui the strip is laid out in, by what the strip reads of it: its
\* available rect, style.spacing.item_spacing, and whether it is in a
\* sizing pass.
StripUiOf(rect, item_spacing, sizing_pass) ==
    [rect |-> rect, item_spacing |-> item_spacing, sizing_pass |-> sizing_pass]

Rect_union(a, b) ==
    [min |-> Pos(Min2(a.min.x, b.min.x), Min2(a.min.y, b.min.y)),
     max |-> Pos(Max2(a.max.x, b.max.x), Max2(a.max.y, b.max.y))]

\* new whose high-water mark starts at the zero position.
StripLayout_new_max_at_zero(ui, direction, sense_interactive) ==
    [ui |-> ui, direction |-> direction, rect |-> ui.rect,
     cursor |-> ui.rect.min, max |-> Pos(0, 0),
     sense_interactive |-> sense_interactive]

StripLayout_new(ui, direction, sense_interactive) ==
    [ui |-> ui, direction |-> direction, rect |-> ui.rect,
     cursor |-> ui.rect.min, max |-> ui.rect.min,
     sense_interactive |-> sense_interactive]

StripLayout_cell_rect(self, width, height) ==
    [min |-> self.cursor,
     max |-> Pos(IF width.remainder THEN self.rect.max.x
                 ELSE self.cursor.x + width.size,
                 IF height.remainder THEN self.rect.max.y
                 ELSE self.cursor.y + height.size)]

\* set_pos that forgets the cells before the last one.
StripLayout_set_pos_last_cell(self, rect) ==
    [self EXCEPT !.max = rect.max,
                 !.cursor = IF self.direction = "Horizontal"
                            THEN Pos(rect.max.x + self.ui.item_spacing.x, self.cursor.y)
                            ELSE Pos(self.cursor.x, rect.max.y + self.ui.item_spacing.y)]

StripLayout_set_pos(self, rect) ==
    [self EXCEPT !.max = Pos(Max2(self.max.x, rect.max.x), Max2(self.max.y, rect.max.y)),
                 !.cursor = IF self.direction = "Horizontal"
                            THEN Pos(rect.max.x + self.ui.item_spacing.x, self.cursor.y)
                            ELSE Pos(self.cursor.x, rect.max.y + self.ui.item_spacing.y)]

\* empty that keeps the cursor where it was.
StripLayout_empty_in_place(self, width, height) ==
    [StripLayout_set_pos(self, StripLayout_cell_rect(self, width, height))
        EXCEPT !.cursor = self.cursor]

StripLayout_empty(self, width, height) ==
    StripLayout_set_pos(self, StripLayout_cell_rect(self, width, height))

\* Paint calls that give a selected cell the hover background as well.
StripLayout_painted_hover_on_selected(self, flags) ==
    (IF flags.striped THEN <<"striped">> ELSE <<>>)
    \o (IF flags.selected THEN <<"selected">> ELSE <<>>)
    \o (IF flags.hovered /\ self.sense_interactive THEN <<"hovered">> ELSE <<>>)
    \o (IF flags.overline THEN <<"overline">> ELSE <<>>)
    \o <<"contents">>

\* The paint calls of add and cell, in order, and the cell content last.
StripLayout_painted(self, flags) ==
    (IF flags.striped THEN <<"striped">> ELSE <<>>)
    \o (IF flags.selected THEN <<"selected">> ELSE <<>>)
    \o (IF flags.hovered /\ ~flags.selected /\ self.sense_interactive
        THEN <<"hovered">> ELSE <<>>)
    \o (IF flags.overline THEN <<"overline">> ELSE <<>>)
    \o <<"contents">>

\* add that lets the content of a clipped cell grow the allocated rect.
StripLayout_add_unclipped(self, flags, width, height, content) ==
    LET max_rect == StripLayout_cell_rect(self, width, height)
        used_rect == [min |-> max_rect.min,
                      max |-> Pos(max_rect.min.x + content.x, max_rect.min.y + content.y)]
        allocation_rect == IF self.ui.sizing_pass THEN used_rect
                           ELSE Rect_union(max_rect, used_rect)
    IN  [strip |-> StripLayout_set_pos(self, allocation_rect),
         used_rect |-> used_rect,
         allocation_rect |-> allocation_rect,
         painted |-> StripLayout_painted(self, flags)]

\* add: the strip after the call, the used rect returned, the rect allocated
\* in the parent Ui, and the paint calls made.  `content` is the size the
\* cell's widgets take, from the cell's top-left corner.
StripLayout_add(self, flags, width, height, content) ==
    LET max_rect == StripLayout_cell_rect(self, width, height)
        used_rect == [min |-> max_rect.min,
                      max |-> Pos(max_rect.min.x + content.x, max_rect.min.y + content.y)]
        allocation_rect == IF self.ui.sizing_pass THEN used_rect
                           ELSE IF flags.clip THEN max_rect
                           ELSE Rect_union(max_rect, used_rect)
    IN  [strip |-> StripLayout_set_pos(self, allocation_rect),
         used_rect |-> used_rect,
         allocation_rect |-> allocation_rect,
         painted |-> StripLayout_painted(self, flags)]

\* end_line that only returns to the start of the line.
StripLayout_end_line_same_line(self) ==
    IF self.direction = "Horizontal"
    THEN [self EXCEPT !.cursor = Pos(self.rect.min.x, self.cursor.y)]
    ELSE [self EXCEPT !.cursor = Pos(self.cursor.x, self.rect.min.y)]

StripLayout_end_line(self) ==
    IF self.direction = "Horizontal"
    THEN [self EXCEPT !.cursor = Pos(self.rect.min.x,
                                     self.max.y + self.ui.item_spacing.y)]
    ELSE [self EXCEPT !.cursor = Pos(self.max.x + self.ui.item_spacing.x,
                                     self.rect.min.y)]

\* Rect::from_two_pos
Rect_from_two_pos(a, b) ==
    [min |-> Pos(Min2(a.x, b.x), Min2(a.y, b.y)),
     max |-> Pos(Max2(a.x, b.x), Max2(a.y, b.y))]

\* skip_space: the strip after the call and the rect allocated in the Ui.
StripLayout_skip_space(self, delta) ==
    [strip |-> [self EXCEPT !.cursor = Pos(self.cursor.x + delta.x,
                                           self.cursor.y + delta.y)],
     rect |-> Rect_from_two_pos(self.cursor,
                                Pos(self.cursor.x + delta.x, self.cursor.y + delta.y))]

\* allocate_rect: the rect allocated in the Ui, from the strip's left top to
\* the high-water mark.
StripLayout_allocate_rect(self) == [min |-> self.rect.min, max |-> self.max]

----------------------------------------------------------------------------
(* Panels and strips: state and inputs *)

\* The screen rect a pass starts with.
ScreenOf(width, height) == RectOf(0, 0, width, height)
PanelScreen == ScreenOf(Pt(1000), Pt(600))
\* A large screen, one narrower and lower than the smallest panel, and one
\* whose size is no whole number of points.
Screens == { PanelScreen, ScreenOf(Pt(50), Pt(15)), ScreenOf(Pt(300) + 1, Pt(200) + 1) }

PanelNames == {"a", "b"}
PanelIds == {Id_new(n) : n \in PanelNames}
\* Every id a PanelState is persisted under.
StoreIds == PanelIds \cup {Id_with(i, "animating_panel") : i \in PanelIds}
NoPersisted == [i \in StoreIds |-> NoRect]

\* The panels shown: the defaults, the panel of the clamping example
\* (width_range [96, 400], default 200), and fixed and resizable ones.
SidePanels ==
    { SidePanel_width_range(SidePanel_left(Id_new("a")), Rangef(Pt(96), Pt(400))),
      SidePanel_right(Id_new("b")),
      SidePanel_frame(SidePanel_default_width(
          SidePanel_resizable(SidePanel_right(Id_new("a")), FALSE), Pt(60)), Frame_NONE) }
TopBottomPanels ==
    { TopBottomPanel_top(Id_new("b")),
      TopBottomPanel_default_height(
          TopBottomPanel_resizable(TopBottomPanel_bottom(Id_new("a")), TRUE), Pt(100)) }

\* Content that fills what it is offered, small content, and content larger
\* than the large screen whose size is no whole number of points.
Contents ==
    { Content(TRUE, 0, 0), Content(FALSE, Pt(100), Pt(30)),
      Content(FALSE, Pt(1100) + 1, Pt(700) + 1) }

\* No response recorded, a handle that is not dragged, a drag with a pointer
\* position, and a drag without one.
Responses ==
    { NoResponse, Response(FALSE, NoPos),
      Response(TRUE, SomePos(Pos(Pt(150), Pt(50)))), Response(TRUE, NoPos) }

Progress == 0..ProgressSteps

\* The panels that are shown pass after pass under one id.
ExtentSidePanels ==
    { SidePanel_width_range(SidePanel_left(Id_new("a")), Rangef(Pt(96), Pt(400))) }
ExtentTopBottomPanels ==
    { TopBottomPanel_default_height(
          TopBottomPanel_resizable(TopBottomPanel_bottom(Id_new("a")), TRUE), Pt(100)) }

\* The panels that store under one id: resizable ones and fixed ones.
StoreSidePanels ==
    ExtentSidePanels
        \cup { SidePanel_frame(SidePanel_default_width(
                   SidePanel_resizable(SidePanel_right(Id_new("a")), FALSE), Pt(60)),
                   Frame_NONE) }
StoreTopBottomPanels == ExtentTopBottomPanels \cup { TopBottomPanel_top(Id_new("a")) }

\* No response recorded, and a drag with a pointer position.
ExtentResponses == { NoResponse, Response(TRUE, SomePos(Pos(Pt(150), Pt(50)))) }

\* The panels whose handle is used: of every side, resizable with a bounded
\* range and fixed, of an exact extent, and with a range whose min exceeds
\* its max.
ResizeSidePanels ==
    { SidePanel_width_range(SidePanel_left(Id_new("a")), Rangef(Pt(96), Pt(400))),
      SidePanel_width_range(SidePanel_right(Id_new("a")), Rangef(Pt(96), Pt(400))),
      SidePanel_resizable(SidePanel_left(Id_new("a")), FALSE),
      SidePanel_exact_width(SidePanel_left(Id_new("a")), Pt(250)),
      SidePanel_exact_width(
          SidePanel_width_range(SidePanel_right(Id_new("a")), Rangef(Pt(96), Pt(400))),
          Pt(60)),
      SidePanel_width_range(SidePanel_left(Id_new("a")), Rangef(Pt(400), Pt(96))) }
ResizeTopBottomPanels ==
    { TopBottomPanel_height_range(
          TopBottomPanel_resizable(TopBottomPanel_top(Id_new("a")), TRUE),
          Rangef(Pt(20), Pt(120))),
      TopBottomPanel_height_range(
          TopBottomPanel_resizable(TopBottomPanel_bottom(Id_new("a")), TRUE),
          Rangef(Pt(20), Pt(120))),
      TopBottomPanel_default_height(TopBottomPanel_bottom(Id_new("a")), Pt(100)),
      TopBottomPanel_exact_height(
          TopBottomPanel_resizable(TopBottomPanel_top(Id_new("a")), TRUE), Pt(40)),
      TopBottomPanel_height_range(
          TopBottomPanel_resizable(TopBottomPanel_bottom(Id_new("a")), TRUE),
          Rangef(Pt(120), Pt(20))) }
\* What is read of the handle: nothing, a handle at rest, drags with the
\* pointer inside, below and beyond the ranges, and a drag without a pointer
\* position; and what the interaction after the content answers.
ResizePointers == { Pos(Pt(150), Pt(50)), Pos(Pt(30), Pt(5)), Pos(Pt(700), Pt(400)) }
ResizeInteracts == { Interact(FALSE, FALSE), Interact(TRUE, FALSE), Interact(FALSE, TRUE) }
ResizeResponses ==
    { Interacting(r, i.hovered, i.dragged) :
          r \in { NoResponse, Response(FALSE, NoPos), Response(TRUE, NoPos) }
                   \cup { Response(TRUE, SomePos(p)) : p \in ResizePointers },
          i \in ResizeInteracts }
ResizeContents == { Content(TRUE, 0, 0), Content(FALSE, Pt(1100) + 1, Pt(700) + 1) }

\* One panel of every side, and what is done to them, in a pass of several.
PassSidePanels ==
    { SidePanel_width_range(SidePanel_left(Id_new("a")), Rangef(Pt(96), Pt(400))),
      SidePanel_right(Id_new("b")) }
PassTopBottomPanels ==
    { TopBottomPanel_top(Id_new("b")),
      TopBottomPanel_default_height(
          TopBottomPanel_resizable(TopBottomPanel_bottom(Id_new("a")), TRUE), Pt(100)) }
PassResponses == { NoResponse }
\* The contents, and small content whose size is no whole number of points.
PassContents == Contents \cup { Content(FALSE, Pt(100) + 1, Pt(30) + 1) }
InsideSidePanels == { SidePanel_right(Id_new("b")) }
InsideTopBottomPanels == { TopBottomPanel_top(Id_new("a")) }
InsideContents == { Content(TRUE, 0, 0), Content(FALSE, Pt(1100) + 1, Pt(700) + 1) }

\* What an earlier run may have persisted: a panel rect within the ranges of
\* the panels, one below them, and the rect of an animation.
StoredAs(id, rect) == [NoPersisted EXCEPT ![id] = SomeRect(rect)]
PersistedData ==
    { StoredAs(Id_new("a"), RectOf(0, 0, Pt(300), Pt(150))),
      StoredAs(Id_new("b"), RectOf(0, 0, Pt(40), Pt(10))),
      [StoredAs(Id_new("a"), RectOf(0, 0, Pt(300), Pt(150)))
          EXCEPT ![Id_with(Id_new("a"), "animating_panel")] =
                     SomeRect(RectOf(0, 0, Pt(120), Pt(60)))] }

\* What an earlier run of a resized panel persisted: a rect within the
\* ranges and one below them.
ResizePersisted ==
    { StoredAs(Id_new("a"), RectOf(0, 0, Pt(300), Pt(150))),
      StoredAs(Id_new("a"), RectOf(0, 0, Pt(40), Pt(10))) }

\* A top-level panel shown in this pass: the available rect it found, the
\* panel rect it laid its content out in, the response rect of its frame,
\* and the region it reported to the pass (allocate_*_panel).
TopLevel(kind, id, available, panel_rect, rect, reported) ==
    [kind |-> kind, id |-> id, available |-> available, panel_rect |-> panel_rect,
     rect |-> rect, reported |-> reported]

\* The last panel call: its inputs, the available rect and the PanelState it
\* found, what it returned, and the calls it made.  After begin_pass it keeps
\* the panel, content, available rect and result of the last panel call of
\* the pass before.
PanelCalled(op, panel, response, content, how_expanded, available, loaded, ret, extent, icon, log) ==
    [op |-> op, panel |-> panel, response |-> response, content |-> content,
     how_expanded |-> how_expanded, available |-> available, loaded |-> loaded,
     ret |-> ret, extent |-> extent, icon |-> icon, log |-> log]
NoHandles == [prev |-> {}, this |-> {}]
NoPanelCall ==
    PanelCalled("begin_pass", CentralPanel_default, NoResponse, EmptyContent, 0,
                PanelScreen, NoRect, NoRect, 0, NoIcon, <<>>)

\* The Ui:s a strip is made in: with and without item spacing, in a sizing
\* pass or not.
item_spacing == Pos(Pt(8), Pt(3))
StripRect == RectOf(Pt(10), Pt(20), Pt(110), Pt(120))
StripUis ==
    { StripUiOf(StripRect, item_spacing, FALSE), StripUiOf(StripRect, Pos(0, 0), FALSE),
      StripUiOf(StripRect, item_spacing, TRUE) }
CellDirections == {"Horizontal", "Vertical"}
\* The cell sizes of the line example (10, 30, 15), and the remainder.
AbsoluteSizes == { Absolute(Pt(10)), Absolute(Pt(30)), Absolute(Pt(15)) }
CellSizes == AbsoluteSizes \cup { Remainder }
\* Cell content smaller than every cell and larger than the absolute ones.
CellContents == { Pos(Pt(5), Pt(5)), Pos(Pt(40), Pt(35)) }
CellFlags ==
    { StripLayoutFlags(c, FALSE, FALSE, FALSE, FALSE, FALSE) : c \in BOOLEAN }
\* A Ui with little room, and the space skipped.
SmallStripRect == RectOf(Pt(10), Pt(20), Pt(60), Pt(50))
SmallStripUis == { StripUiOf(SmallStripRect, item_spacing, FALSE) }
SkippedSpaces == { Pos(Pt(25), Pt(15)) }
\* Every combination of the flags.
AllCellFlags ==
    { StripLayoutFlags(c, s, h, sel, o, z) :
          c \in BOOLEAN, s \in BOOLEAN, h \in BOOLEAN, sel \in BOOLEAN,
          o \in BOOLEAN, z \in BOOLEAN }

\* The current line of the strip: the cursor it started at and the rects
\* allocated on it.
LineOf(origin, cells, lines) == [origin |-> origin, cells |-> cells, lines |-> lines]
NoLine(origin) == LineOf(origin, <<>>, 0)
\* The arguments of add and empty: the flags, the cell sizes, and the size
\* the cell's widgets take.
CellArgs(flags, width, height, content) ==
    [flags |-> flags, width |-> width, height |-> height, content |-> content]
NoCellArgs ==
    CellArgs(StripLayoutFlags(FALSE, FALSE, FALSE, FALSE, FALSE, FALSE),
             Remainder, Remainder, Pos(0, 0))
\* The last StripLayout call: its arguments, the rect it returned, the rect
\* it allocated, the paint calls it made, and for end_line the line it
\* ended: where it started and the rects allocated on it.
StripCalled(op, args, rect, allocation, painted, ended) ==
    [op |-> op, args |-> args, rect |-> rect, allocation |-> allocation,
     painted |-> painted, ended |-> ended]
FirstStrip == StripLayout_new(StripUiOf(StripRect, item_spacing, FALSE), "Horizontal", TRUE)

----------------------------------------------------------------------------
(* State *)

NoGraphics == [l \in LayerIds |-> <<>>]
\* The opacity history of a painter made by Painter::new: no call yet.
NoHist == [from_new |-> TRUE, args |-> <<>>]
\* op: the method; idx: the ShapeIdx returned or given (for extend, the number
\* of shapes given); vis: the result of is_visible; arg: the f32 argument.
Called(op, idx, vis, arg) == [op |-> op, idx |-> idx, vis |-> vis, arg |-> arg]

RECURSIVE SumLen(_, _)
SumLen(g, ls) ==
    IF ls = {} THEN 0
    ELSE LET l == CHOOSE x \in ls : TRUE IN Len(g[l]) + SumLen(g, ls \ {l})

\* Number of shapes stored in all paint lists.
TotalShapes(g) == SumLen(g, LayerIds)

Fades == {None, Some(TRANSPARENT), Some(GRAY)}
PaintClips == {ScreenRect, RectOf(1, 0, 3, 2)}

Painter_value(layer_id, clip_rect, fade_to_color, opacity_factor) ==
    [layer_id |-> layer_id, clip_rect |-> clip_rect,
     fade_to_color |-> fade_to_color, opacity_factor |-> opacity_factor]

\* The painters add / extend / set are called through.  On the background
\* layer, one painter for every way the fade and the opacity decide what is
\* stored, with two different clip rects among them; on the foreground layer,
\* a plain painter and an invisible one.  Each is a state of a painter: every
\* field has a setter of its own.
PainterValues ==
    { Painter_value("Background", ScreenRect, None, One),
      Painter_value("Background", RectOf(1, 0, 3, 2), None, One \div 2),
      Painter_value("Background", RectOf(1, 0, 3, 2), Some(GRAY), One),
      Painter_value("Background", ScreenRect, Some(GRAY), One \div 2),
      Painter_value("Background", ScreenRect, Some(TRANSPARENT), One),
      Painter_value("Background", RectOf(1, 0, 3, 2), None, 0),
      Painter_value("Foreground", RectOf(1, 0, 3, 2), None, One),
      Painter_value("Foreground", ScreenRect, Some(TRANSPARENT), 0) }

\* The indices add can return.
ShapeIdxs == 0..(MaxShapes - 1)

ShapeSeqs(n) == UNION {[1..k -> ShapeArgs] : k \in 0..n}

Init ==
    /\ painter = Painter_new("Background", ScreenRect)
    /\ chain = <<>>
    /\ hist = NoHist
    /\ graphics = NoGraphics
    /\ will_discard = FALSE
    /\ last = Called("new", 0, TRUE, Finite(0))
    /\ available_rect = PanelScreen
    /\ persisted = NoPersisted
    /\ cursor = PanelScreen
    /\ shown = <<>>
    /\ plast = NoPanelCall
    /\ handles = NoHandles
    /\ strip = FirstStrip
    /\ line = NoLine(StripRect.min)
    /\ slast = StripCalled("new", NoCellArgs, StripRect, StripRect, <<>>, NoLine(StripRect.min))
    /\ built = NotBuilt
    /\ app = WinitAppWrapper_new(FALSE)
    /\ event_loop = EventLoop_new
    /\ clock = 0
    /\ process = NotStarted
    /\ rlast = NoHandler

----------------------------------------------------------------------------
(* Actions: the configuration methods on the painter handle *)

New(layer_id, clip_rect) ==
    /\ painter' = Painter_new(layer_id, clip_rect)
    /\ last' = Called("new", 0, TRUE, Finite(0))
    /\ UNCHANGED <<graphics, will_discard, panelVars, stripVars, builderVars, runVars>>

WithLayerId(layer_id) ==
    /\ painter' = Painter_with_layer_id(painter, layer_id)
    /\ last' = Called("with_layer_id", 0, TRUE, Finite(0))
    /\ UNCHANGED <<graphics, will_discard, panelVars, stripVars, builderVars, runVars>>

\* The handle is rebound to the painter returned.
WithClipRect(rect) ==
    /\ painter' = Painter_with_clip_rect(painter, rect)
    /\ last' = Called("with_clip_rect", 0, TRUE, Finite(0))
    /\ UNCHANGED <<graphics, will_discard, panelVars, stripVars, builderVars, runVars>>

ShrinkClipRect(rect) ==
    /\ painter' = Painter_shrink_clip_rect(painter, rect)
    /\ last' = Called("shrink_clip_rect", 0, TRUE, Finite(0))
    /\ UNCHANGED <<graphics, will_discard, panelVars, stripVars, builderVars, runVars>>

SetClipRect(rect) ==
    /\ painter' = Painter_set_clip_rect(painter, rect)
    /\ last' = Called("set_clip_rect", 0, TRUE, Finite(0))
    /\ UNCHANGED <<graphics, will_discard, panelVars, stripVars, builderVars, runVars>>

SetFadeToColor(fade_to_color) ==
    /\ painter' = Painter_set_fade_to_color(painter, fade_to_color)
    /\ last' = Called("set_fade_to_color", 0, TRUE, Finite(0))
    /\ UNCHANGED <<graphics, will_discard, panelVars, stripVars, builderVars, runVars>>

SetInvisible ==
    /\ painter' = Painter_set_invisible(painter)
    /\ last' = Called("set_invisible", 0, TRUE, Finite(0))
    /\ UNCHANGED <<graphics, will_discard, panelVars, stripVars, builderVars, runVars>>

SetOpacity(opacity) ==
    /\ painter' = Painter_set_opacity(painter, opacity)
    /\ last' = Called("set_opacity", 0, TRUE, opacity)
    /\ UNCHANGED <<graphics, will_discard, panelVars, stripVars, builderVars, runVars>>

MultiplyOpacity(opacity) ==
    /\ painter' = Painter_multiply_opacity(painter, opacity)
    /\ last' = Called("multiply_opacity", 0, TRUE, opacity)
    /\ UNCHANGED <<graphics, will_discard, panelVars, stripVars, builderVars, runVars>>

IsVisible ==
    /\ last' = Called("is_visible", 0, Painter_is_visible(painter, will_discard), Finite(0))
    /\ UNCHANGED <<painter, graphics, will_discard, chain, hist, panelVars, stripVars, builderVars, runVars>>

\* Context::request_discard, by any widget of the pass.
RequestDiscard ==
    /\ ~will_discard
    /\ will_discard' = TRUE
    /\ last' = Called("request_discard", 0, TRUE, Finite(0))
    /\ UNCHANGED <<painter, graphics, chain, hist, panelVars, stripVars, builderVars, runVars>>

\* A new pass: the graphics registry is reset.
BeginPass ==
    /\ graphics' = NoGraphics
    /\ will_discard' = FALSE
    /\ last' = Called("begin_pass", 0, TRUE, Finite(0))
    /\ UNCHANGED <<painter, chain, hist, panelVars, stripVars, builderVars, runVars>>

----------------------------------------------------------------------------
(* Actions: painting through a painter value *)

Add(self, shape) ==
    /\ TotalShapes(graphics) < MaxShapes
    /\ graphics' = Painter_add(self, graphics, shape).g
    /\ last' = Called("add", Painter_add(self, graphics, shape).idx, TRUE, Finite(0))
    /\ UNCHANGED <<painter, will_discard, chain, hist, panelVars, stripVars, builderVars, runVars>>

Extend(self, shapes) ==
    /\ TotalShapes(graphics) + Len(shapes) <= MaxShapes
    /\ graphics' = Painter_extend(self, graphics, shapes)
    /\ last' = Called("extend", Len(shapes), TRUE, Finite(0))
    /\ UNCHANGED <<painter, will_discard, chain, hist, panelVars, stripVars, builderVars, runVars>>

Set(self, idx, shape) ==
    /\ graphics' = Painter_set(self, graphics, idx, shape)
    /\ last' = Called("set", idx, TRUE, Finite(0))
    /\ UNCHANGED <<painter, will_discard, chain, hist, panelVars, stripVars, builderVars, runVars>>

----------------------------------------------------------------------------------------------------------------------------------------
(* Actions: panels *)

TheWorld == World(available_rect, persisted, cursor)

\* No more panels after MaxPanels, and none after the central panel.
PassOpen ==
    /\ Len(shown) < MaxPanels
    /\ \A i \in 1..Len(shown) : shown[i].kind # "Central"

\* The region the last allocate_*_panel call of a log was given.
Reported(log) == log[Len(log)].rect

\* The ids a call interacted with (ui.interact registers the widget).
Interacted(log) == { log[i].id : i \in { j \in 1..Len(log) : log[j].ev = "interact" } }

\* ctx.read_response(id) has something to answer only for a widget of this
\* pass or of the pass before.
Registered(id) == id \in handles.this \cup handles.prev

\* A panel call ends in the context w2.
PanelStep(op, panel, response, content, how_expanded, w2, ret, extent, tops) ==
    /\ response.some => ("id" \in DOMAIN panel /\ Registered(Id_with(panel.id, "__resize")))
    /\ handles' = [handles EXCEPT !.this = @ \cup Interacted(w2.log)]
    /\ available_rect' = w2.available_rect
    /\ persisted' = w2.persisted
    /\ cursor' = w2.cursor
    /\ shown' = shown \o tops
    /\ plast' = PanelCalled(op, panel, response, content, how_expanded, available_rect,
                            IF "id" \in DOMAIN panel THEN persisted[panel.id] ELSE NoRect,
                            ret, extent, w2.cursor_icon, w2.log)
    /\ UNCHANGED <<painterVars, stripVars, builderVars, runVars>>

\* A call that is no plain top-level show, in the record of the pass.
Other(kind, id) == TopLevel(kind, id, available_rect, NoRect.v, NoRect.v, NoRect.v)

\* Context::begin_pass on a screen rect: the whole screen is available, the
\* graphics are reset; what is persisted stays.
BeginPassOn(screen_rect) ==
    /\ available_rect' = screen_rect
    /\ cursor' = screen_rect
    /\ shown' = <<>>
    /\ plast' = [NoPanelCall EXCEPT !.panel = plast.panel, !.content = plast.content,
                                    !.available = plast.available, !.ret = plast.ret]
    /\ handles' = [prev |-> handles.this, this |-> {}]
    /\ graphics' = NoGraphics
    /\ will_discard' = FALSE
    /\ UNCHANGED <<painter, chain, hist, last, persisted, stripVars, builderVars, runVars>>

\* The persisted data of an earlier run is loaded before the first pass.
LoadPersisted(data) ==
    /\ persisted = NoPersisted
    /\ shown = <<>>
    /\ persisted' = data
    /\ plast' = NoPanelCall
    /\ UNCHANGED <<available_rect, cursor, shown, handles, painterVars, stripVars, builderVars, runVars>>

\* A plain top-level show returned r: it is a panel of the pass.
ShowStep(op, kind, id, panel, response, content, r) ==
    /\ PassOpen
    /\ PanelStep(op, panel, response, content, ProgressSteps, r.w, SomeRect(r.rect),
                 r.extent,
                 <<TopLevel(kind, id, available_rect, r.panel_rect, r.rect,
                            Reported(r.w.log))>>)

\* A plain show inside a parent Ui returned r.
InsideStep(op, id, panel, response, content, r) ==
    /\ PassOpen
    /\ PanelStep(op, panel, response, content, ProgressSteps, r.w, SomeRect(r.rect),
                 r.extent, <<Other("Inside", id)>>)

\* An animated show returned r.
AnimatedStep(op, panel, how_expanded, response, content, r) ==
    /\ PassOpen
    /\ PanelStep(op, panel, response, content, how_expanded, r.w, r.ret, 0,
                 <<Other("Animated", panel.id)>>)

SidePanelShow(panel, response, content) ==
    ShowStep("SidePanel::show", panel.side, panel.id, panel, response, content,
             SidePanel_show_dyn(panel, TheWorld, response, content))

TopBottomPanelShow(panel, response, content) ==
    ShowStep("TopBottomPanel::show", panel.side, panel.id, panel, response, content,
             TopBottomPanel_show_dyn(panel, TheWorld, response, content))

CentralPanelShow(content) ==
    ShowStep("CentralPanel::show", "Central", NoId, CentralPanel_default, NoResponse,
             content, CentralPanel_show_dyn(CentralPanel_default, TheWorld, content))

SidePanelShowInside(panel, response, content) ==
    InsideStep("SidePanel::show_inside", panel.id, panel, response, content,
               SidePanel_show_inside_dyn(panel, TheWorld, response, content))

TopBottomPanelShowInside(panel, response, content) ==
    InsideStep("TopBottomPanel::show_inside", panel.id, panel, response, content,
               TopBottomPanel_show_inside_dyn(panel, TheWorld, response, content))

CentralPanelShowInside(content) ==
    InsideStep("CentralPanel::show_inside", NoId, CentralPanel_default, NoResponse,
               content,
               CentralPanel_show_inside_dyn(CentralPanel_default, TheWorld, content))

SidePanelShowAnimated(panel, how_expanded, response, content) ==
    AnimatedStep("SidePanel::show_animated", panel, how_expanded, response, content,
                 SidePanel_show_animated(panel, TheWorld, how_expanded, response,
                                         content))

SidePanelShowAnimatedInside(panel, how_expanded, response, content) ==
    AnimatedStep("SidePanel::show_animated_inside", panel, how_expanded, response,
                 content,
                 SidePanel_show_animated_inside(panel, TheWorld, how_expanded,
                                                response, content))

\* plast.panel is the expanded panel, with the collapsed panel of the call.
Between(collapsed_panel, expanded_panel) ==
    [f \in DOMAIN expanded_panel \cup {"collapsed"} |->
        IF f = "collapsed" THEN collapsed_panel ELSE expanded_panel[f]]

SidePanelShowAnimatedBetween(collapsed_panel, expanded_panel, how_expanded, response, content) ==
    AnimatedStep("SidePanel::show_animated_between",
                 Between(collapsed_panel, expanded_panel), how_expanded,
                 response, content,
                 SidePanel_show_animated_between(TheWorld, how_expanded,
                                                 collapsed_panel, expanded_panel,
                                                 response, content))

SidePanelShowAnimatedBetweenInside(collapsed_panel, expanded_panel, how_expanded, response, content) ==
    AnimatedStep("SidePanel::show_animated_between_inside",
                 Between(collapsed_panel, expanded_panel),
                 how_expanded, response, content,
                 SidePanel_show_animated_between_inside(
                     TheWorld, how_expanded, collapsed_panel, expanded_panel,
                     response, content))

TopBottomPanelShowAnimated(panel, how_expanded, response, content) ==
    AnimatedStep("TopBottomPanel::show_animated", panel, how_expanded, response,
                 content,
                 TopBottomPanel_show_animated(panel, TheWorld, how_expanded, response,
                                              content))

TopBottomPanelShowAnimatedInside(panel, how_expanded, response, content) ==
    AnimatedStep("TopBottomPanel::show_animated_inside", panel, how_expanded,
                 response, content,
                 TopBottomPanel_show_animated_inside(panel, TheWorld, how_expanded,
                                                     response, content))

TopBottomPanelShowAnimatedBetween(collapsed_panel, expanded_panel, how_expanded, response, content) ==
    AnimatedStep("TopBottomPanel::show_animated_between", Between(collapsed_panel, expanded_panel),
                 how_expanded, response, content,
                 TopBottomPanel_show_animated_between(
                     TheWorld, how_expanded, collapsed_panel, expanded_panel,
                     response, content))

TopBottomPanelShowAnimatedBetweenInside(collapsed_panel, expanded_panel, how_expanded, response, content) ==
    AnimatedStep("TopBottomPanel::show_animated_between_inside", Between(collapsed_panel, expanded_panel),
                 how_expanded, response, content,
                 TopBottomPanel_show_animated_between_inside(
                     TheWorld, how_expanded, collapsed_panel, expanded_panel,
                     response, content))

----------------------------------------------------------------------------
(* Actions: the strip *)

StripNew(ui, direction, sense_interactive) ==
    /\ strip' = StripLayout_new(ui, direction, sense_interactive)
    /\ line' = NoLine(ui.rect.min)
    /\ slast' = StripCalled("new", NoCellArgs, ui.rect, ui.rect, <<>>, NoLine(ui.rect.min))
    /\ UNCHANGED <<painterVars, panelVars, builderVars, runVars>>

StripAdd(flags, width, height, content) ==
    LET r == StripLayout_add(strip, flags, width, height, content)
    IN  /\ Len(line.cells) < MaxCells
        /\ line.lines < MaxLines
        /\ strip' = r.strip
        /\ line' = [line EXCEPT !.cells = Append(@, r.allocation_rect)]
        /\ slast' = StripCalled("add", CellArgs(flags, width, height, content),
                                r.used_rect, r.allocation_rect, r.painted,
                                NoLine(strip.rect.min))
        /\ UNCHANGED <<painterVars, panelVars, builderVars, runVars>>

StripEmpty(width, height) ==
    /\ Len(line.cells) < MaxCells
    /\ line.lines < MaxLines
    /\ strip' = StripLayout_empty(strip, width, height)
    /\ line' = [line EXCEPT !.cells =
                    Append(@, StripLayout_cell_rect(strip, width, height))]
    /\ slast' = StripCalled("empty",
                            CellArgs(NoCellArgs.flags, width, height, Pos(0, 0)),
                            StripLayout_cell_rect(strip, width, height),
                            StripLayout_cell_rect(strip, width, height), <<>>,
                            NoLine(strip.rect.min))
    /\ UNCHANGED <<painterVars, panelVars, builderVars, runVars>>

StripEndLine ==
    /\ line.lines < MaxLines
    /\ strip' = StripLayout_end_line(strip)
    /\ line' = LineOf(StripLayout_end_line(strip).cursor, <<>>, line.lines + 1)
    /\ slast' = StripCalled("end_line", NoCellArgs, strip.rect, strip.rect, <<>>, line)
    /\ UNCHANGED <<painterVars, panelVars, builderVars, runVars>>

\* Space is skipped while the cursor stays inside the strip's rect.
StripSkipSpace(delta) ==
    /\ StripLayout_skip_space(strip, delta).strip.cursor.x <= strip.rect.max.x
    /\ StripLayout_skip_space(strip, delta).strip.cursor.y <= strip.rect.max.y
    /\ strip' = StripLayout_skip_space(strip, delta).strip
    /\ slast' = StripCalled("skip_space", NoCellArgs,
                            StripLayout_skip_space(strip, delta).rect,
                            StripLayout_skip_space(strip, delta).rect, <<>>,
                            NoLine(strip.rect.min))
    /\ UNCHANGED <<line, painterVars, panelVars, builderVars, runVars>>

StripAllocateRect ==
    /\ slast.op # "allocate_rect"
    /\ slast' = StripCalled("allocate_rect", NoCellArgs,
                            StripLayout_allocate_rect(strip),
                            StripLayout_allocate_rect(strip), <<>>,
                            NoLine(strip.rect.min))
    /\ UNCHANGED <<strip, line, painterVars, panelVars, builderVars, runVars>>

----------------------------------------------------------------------------
(* Actions: the builder calls on a panel under construction *)

SidePanelNew(side) ==
    /\ built' = Built("SidePanel", SidePanel_new(side, Id_new("a")), "new", 0)
    /\ UNCHANGED <<painterVars, panelVars, stripVars, runVars>>

DefaultWidth(default_width) ==
    /\ built.kind = "SidePanel"
    /\ built' = Built("SidePanel", SidePanel_default_width(built.panel, default_width),
                      "default_width", default_width)
    /\ UNCHANGED <<painterVars, panelVars, stripVars, runVars>>

MinWidth(min_width) ==
    /\ built.kind = "SidePanel"
    /\ built' = Built("SidePanel", SidePanel_min_width(built.panel, min_width),
                      "min_width", min_width)
    /\ UNCHANGED <<painterVars, panelVars, stripVars, runVars>>

MaxWidth(max_width) ==
    /\ built.kind = "SidePanel"
    /\ built' = Built("SidePanel", SidePanel_max_width(built.panel, max_width),
                      "max_width", max_width)
    /\ UNCHANGED <<painterVars, panelVars, stripVars, runVars>>

ExactWidth(width) ==
    /\ built.kind = "SidePanel"
    /\ built' = Built("SidePanel", SidePanel_exact_width(built.panel, width),
                      "exact_width", width)
    /\ UNCHANGED <<painterVars, panelVars, stripVars, runVars>>

TopBottomPanelNew(side) ==
    /\ built' = Built("TopBottomPanel", TopBottomPanel_new(side, Id_new("a")), "new", 0)
    /\ UNCHANGED <<painterVars, panelVars, stripVars, runVars>>

DefaultHeight(default_height) ==
    /\ built.kind = "TopBottomPanel"
    /\ built' = Built("TopBottomPanel",
                      TopBottomPanel_default_height(built.panel, default_height),
                      "default_height", default_height)
    /\ UNCHANGED <<painterVars, panelVars, stripVars, runVars>>

MinHeight(min_height) ==
    /\ built.kind = "TopBottomPanel"
    /\ built' = Built("TopBottomPanel", TopBottomPanel_min_height(built.panel, min_height),
                      "min_height", min_height)
    /\ UNCHANGED <<painterVars, panelVars, stripVars, runVars>>

MaxHeight(max_height) ==
    /\ built.kind = "TopBottomPanel"
    /\ built' = Built("TopBottomPanel", TopBottomPanel_max_height(built.panel, max_height),
                      "max_height", max_height)
    /\ UNCHANGED <<painterVars, panelVars, stripVars, runVars>>

ExactHeight(height) ==
    /\ built.kind = "TopBottomPanel"
    /\ built' = Built("TopBottomPanel", TopBottomPanel_exact_height(built.panel, height),
                      "exact_height", height)
    /\ UNCHANGED <<painterVars, panelVars, stripVars, runVars>>

----------------------------------------------------------------------------
(* Actions: the event loop and the handlers of the wrapper *)

\* The results an app handler returns.
EventResults ==
    {EventResult_Wait, EventResult_Save, EventResult_Exit}
    \cup { EventResult_RepaintNow(w) : w \in WindowIds }
    \cup { EventResult_RepaintNext(w) : w \in WindowIds }
    \cup { EventResult_RepaintAt(w, t) : w \in WindowIds, t \in Instants }
Errors == {"error 1", "error 2"}
Results == { Ok(r) : r \in EventResults } \cup { Err(e) : e \in Errors }
\* The time that passes between two reads of the clock in a handler; a
\* handler takes MaxElapsed ticks at most.
Elapsed == 0..MaxElapsed

\* run_and_return / run_and_exit: the wrapper is made and the loop entered.
\* cfg!(target_os = "windows") is fixed by the build.
Run(run_and_return, target_windows) ==
    /\ process.state = "new"
    /\ app' = WinitAppWrapper_new(run_and_return)
    /\ event_loop' = EventLoop_new
    /\ process' = [process EXCEPT !.state = "running", !.target_windows = target_windows]
    /\ UNCHANGED <<clock, rlast, painterVars, panelVars, stripVars, builderVars>>

\* Time passes while the loop waits.
Tick ==
    /\ process.state = "running"
    /\ clock < MaxInstant
    /\ clock' = clock + 1
    /\ UNCHANGED <<app, event_loop, process, rlast,
                   painterVars, panelVars, stripVars, builderVars>>

\* What a handler leaves behind.
Leave(op, event_result, request, answer, fx, now, windows) ==
    /\ app' = fx.app
    /\ event_loop' = fx.event_loop
    /\ clock' = now
    /\ process' = IF fx.process_exit THEN [process EXCEPT !.state = "exited"] ELSE process
    /\ rlast' = Handled(op, event_result, request, answer, fx, now, windows,
                        rlast.failed \/ ~fx.matched.ok)
    /\ UNCHANGED <<painterVars, panelVars, stripVars, builderVars>>

\* A handler that hands the result of the app to handle_event_result.  A
\* read of the clock that is not made takes no time.
Handle(op, event_result, painted, request, answer, d0, d1, d2, windows) ==
    /\ process.state = "running"
    /\ clock + d0 + d1 + d2 <= MaxInstant
    /\ d0 + d1 + d2 <= MaxElapsed
    /\ d0 = 0 \/ RepaintsAtOnce(process.target_windows, event_result)
    /\ painted = event_result \/ RepaintsAtOnce(process.target_windows, event_result)
    /\ Leave(op, event_result, request, answer,
             handle_event_result(Effects(app, event_loop), process.target_windows,
                                 event_result, painted,
                                 clock + d0, clock + d0 + d1, clock + d0 + d1 + d2,
                                 windows),
             clock + d0 + d1 + d2, windows)

Suspended(event_result, painted, d0, d1, d2, windows) ==
    Handle("suspended", event_result, painted, NoRequest, NoAnswer, d0, d1, d2, windows)

Resumed(event_result, painted, d0, d1, d2, windows) ==
    Handle("resumed", event_result, painted, NoRequest, NoAnswer, d0, d1, d2, windows)

DeviceEvent(event_result, painted, d0, d1, d2, windows) ==
    Handle("device_event", event_result, painted, NoRequest, NoAnswer, d0, d1, d2, windows)

\* window_event: RedrawRequested runs run_ui_and_paint, any other event
\* the window_event of the app; either returns a result.
WindowEvent(event_result, painted, d0, d1, d2, windows) ==
    Handle("window_event", event_result, painted, NoRequest, NoAnswer, d0, d1, d2, windows)

UserEvent(event, current_pass_nr, window_id, d2, windows) ==
    Handle("user_event", user_event_result(event, current_pass_nr, window_id),
           user_event_result(event, current_pass_nr, window_id),
           event, Answered(current_pass_nr, window_id), 0, 0, d2, windows)

\* new_events: check_redraw_requests alone.
NewEvents(d2, windows) ==
    /\ process.state = "running"
    /\ clock + d2 <= MaxInstant
    /\ Leave("new_events", Ok(EventResult_Wait), NoRequest, NoAnswer,
             check_redraw_requests(Effects(app, event_loop), clock + d2, windows),
             clock + d2, windows)

\* new_events with StartCause::ResumeTimeReached: the deadline of a
\* WaitUntil has been reached.
ResumeTimeReached(windows) ==
    /\ event_loop.control_flow.tag = "WaitUntil"
    /\ event_loop.control_flow.until <= clock
    /\ NewEvents(0, windows)

\* exiting: the loop is about to return; the app is saved and destroyed.
Exiting ==
    /\ process.state = "running"
    /\ process' = [process EXCEPT !.state = "exiting"]
    /\ rlast' = [Handled("exiting", Ok(EventResult_Wait), NoRequest, NoAnswer,
                         Effects(app, event_loop), clock, {}, rlast.failed)
                    EXCEPT !.save_and_destroy = 1]
    /\ UNCHANGED <<app, event_loop, clock, painterVars, panelVars, stripVars, builderVars>>

\* run_and_return, lines 321-325: run_app_on_demand returns, and its error,
\* if any, is returned by the `?`; otherwise app.return_result is.
RunAndReturnReturns(loop_result) ==
    /\ app.run_and_return
    /\ process.state = "exiting" \/ (process.state = "running" /\ ~loop_result.ok)
    /\ process' = [process EXCEPT
                      !.state = "returned",
                      !.loop_result = loop_result,
                      !.returned = IF loop_result.ok THEN app.return_result
                                   ELSE Err(loop_result.err)]
    /\ UNCHANGED <<app, event_loop, clock, rlast,
                   painterVars, panelVars, stripVars, builderVars>>

\* run_and_exit, lines 333-337: if run_app returns at all, its error or Ok(()).
RunAndExitReturns(loop_result) ==
    /\ ~app.run_and_return
    /\ process.state = "exiting" \/ (process.state = "running" /\ ~loop_result.ok)
    /\ process' = [process EXCEPT
                      !.state = "returned",
                      !.loop_result = loop_result,
                      !.returned = IF loop_result.ok THEN Ok("()")
                                   ELSE Err(loop_result.err)]
    /\ UNCHANGED <<app, event_loop, clock, rlast,
                   painterVars, panelVars, stripVars, builderVars>>

----------------------------------------------------------------------------
(* Specifications *)

\* The results of the event loop itself.
LoopResults == {Ok("()"), Err("EventLoopError")}
\* The requests a repaint callback sends.
Requests ==
    { RequestRepaint(when, nr, "ROOT") : when \in Instants, nr \in PassNrs }
\* What run_ui_and_paint may return where a RepaintNow is painted at once,
\* and the time a read of the clock may take where the read is made.
Painted(event_result) ==
    IF RepaintsAtOnce(process.target_windows, event_result) THEN Results
    ELSE {event_result}
ElapsedAtOnce(event_result) ==
    IF RepaintsAtOnce(process.target_windows, event_result) THEN Elapsed ELSE {0}
ElapsedInMatch(painted) ==
    IF painted.ok /\ painted.v.tag \in {"RepaintNow", "RepaintNext"} THEN Elapsed
    ELSE {0}

\* The results that schedule a repaint, and two that schedule none.
RepaintResults ==
    { Ok(r) : r \in EventResults \ {EventResult_Exit} }
\* The windows the app may have: the first alone, or both.
Windows == {{"w1"}, WindowIds}

\* Repaints scheduled by window events and taken out as they fall due, on
\* either target.
NextRepaint ==
    \/ \E target_windows \in BOOLEAN : Run(TRUE, target_windows)
    \/ Tick
    \/ \E r \in RepaintResults :
          \E p \in Painted(r) \cap RepaintResults, d0 \in ElapsedAtOnce(r),
             d2 \in Elapsed, windows \in Windows :
             \E d1 \in ElapsedInMatch(p) : WindowEvent(r, p, d0, d1, d2, windows)
    \/ \E d2 \in Elapsed, windows \in Windows : NewEvents(d2, windows)

SpecRepaint == Init /\ [][NextRepaint]_vars

\* Repaint requests of every pass, for viewports with and without a window.
NextRequest ==
    \/ Run(TRUE, FALSE)
    \/ Tick
    \/ \E event \in Requests, nr \in PassNrs, w \in WindowIds \cup {NoWindow},
          d2 \in Elapsed :
          UserEvent(event, nr, w, d2, WindowIds)
    \/ \E d2 \in Elapsed : NewEvents(d2, WindowIds)

SpecRequest == Init /\ [][NextRequest]_vars

\* The results of a loop that schedules repaints until it is told to exit.
LiveResults ==
    {Ok(EventResult_Wait), Ok(EventResult_Exit)}
    \cup { Ok(EventResult_RepaintNow(w)) : w \in WindowIds }
    \cup { Ok(EventResult_RepaintAt(w, t)) : w \in WindowIds, t \in Instants }

\* A running loop: window events schedule repaints, time passes, the loop
\* wakes up, at a deadline or before, and may be told to exit.
NextLive ==
    \/ Run(TRUE, FALSE)
    \/ Tick
    \/ \E r \in LiveResults, d2 \in Elapsed, windows \in Windows :
          WindowEvent(r, r, 0, 0, d2, windows)
    \/ \E d2 \in Elapsed, windows \in Windows : NewEvents(d2, windows)
    \/ \E windows \in Windows : ResumeTimeReached(windows)
    \/ Exiting

\* Time goes on while the loop runs, and the event loop delivers new_events
\* once the deadline of a WaitUntil is reached.
SpecLive ==
    /\ Init
    /\ [][NextLive]_vars
    /\ WF_vars(Tick)
    /\ WF_vars(\E windows \in Windows : ResumeTimeReached(windows))

\* The results that matter to how a run ends.
ExitResults ==
    {Ok(EventResult_Wait), Ok(EventResult_Save), Ok(EventResult_Exit),
     Ok(EventResult_RepaintAt("w1", MaxInstant))}
    \cup { Err(e) : e \in Errors }

\* A run in either mode, until the loop returns or the process exits.
NextExit ==
    \/ \E run_and_return \in BOOLEAN : Run(run_and_return, FALSE)
    \/ Tick
    \/ \E r \in ExitResults, d2 \in Elapsed : Suspended(r, r, 0, 0, d2, WindowIds)
    \/ \E r \in ExitResults, d2 \in Elapsed : Resumed(r, r, 0, 0, d2, WindowIds)
    \/ \E r \in ExitResults, d2 \in Elapsed : DeviceEvent(r, r, 0, 0, d2, WindowIds)
    \/ Exiting
    \/ \E loop_result \in LoopResults : RunAndReturnReturns(loop_result)
    \/ \E loop_result \in LoopResults : RunAndExitReturns(loop_result)

SpecExit == Init /\ [][NextExit]_vars

\* Builder chains of the extent setters, from either constructor.
NextBuilder ==
    \/ \E side \in {"Left", "Right"} : SidePanelNew(side)
    \/ \E x \in BuilderArgs : DefaultWidth(x)
    \/ \E x \in BuilderArgs : MinWidth(x)
    \/ \E x \in BuilderArgs : MaxWidth(x)
    \/ \E x \in BuilderArgs : ExactWidth(x)
    \/ \E side \in {"Top", "Bottom"} : TopBottomPanelNew(side)
    \/ \E x \in BuilderArgs : DefaultHeight(x)
    \/ \E x \in BuilderArgs : MinHeight(x)
    \/ \E x \in BuilderArgs : MaxHeight(x)
    \/ \E x \in BuilderArgs : ExactHeight(x)

SpecBuilder == Init /\ [][NextBuilder]_vars

\* The clip-rect methods, recording the clip rect of every ancestor.
NextClip ==
    \/ \E l \in LayerIds, r \in ClipArgs :
          New(l, r) /\ chain' = <<>> /\ UNCHANGED hist
    \/ \E r \in ClipArgs :
          /\ Len(chain) < MaxChain
          /\ WithClipRect(r)
          /\ chain' = Append(chain, painter.clip_rect)
          /\ UNCHANGED hist
    \/ \E r \in ClipArgs :
          /\ Len(chain) < MaxChain
          /\ ShrinkClipRect(r)
          /\ chain' = Append(chain, painter.clip_rect)
          /\ UNCHANGED hist
    \/ \E r \in ClipArgs :
          SetClipRect(r) /\ chain' = <<>> /\ UNCHANGED hist

SpecClip == Init /\ [][NextClip]_vars

\* The arguments multiply_opacity is called with in SpecOpacity.
MultiplyArgs ==
    { Finite(0 - One), Finite(One \div 2), Finite((5 * One) \div 8),
      Finite((3 * One) \div 4), Finite((7 * One) \div 8), Finite(2 * One),
      NaN, PosInf }

\* The opacity methods, recording the arguments of the multiply_opacity calls
\* made on a painter since Painter::new (set_opacity ends the record).
NextOpacity ==
    \/ New("Background", ScreenRect) /\ hist' = NoHist /\ UNCHANGED chain
    \/ \E x \in OpacityArgs :
          /\ SetOpacity(x)
          /\ hist' = [from_new |-> FALSE, args |-> <<>>]
          /\ UNCHANGED chain
    \/ \E x \in MultiplyArgs :
          /\ hist.from_new => Len(hist.args) < MaxHist
          /\ MultiplyOpacity(x)
          /\ hist' = IF hist.from_new THEN [hist EXCEPT !.args = Append(@, x)] ELSE hist
          /\ UNCHANGED chain
    \/ \E r \in PaintClips :
          WithClipRect(r) /\ UNCHANGED <<chain, hist>>

SpecOpacity == Init /\ [][NextOpacity]_vars

\* Every configuration method, is_visible, and the pass's discard flag.
NextPainter ==
    \/ \E l \in LayerIds, r \in PaintClips : New(l, r) /\ UNCHANGED <<chain, hist>>
    \/ \E l \in LayerIds : WithLayerId(l) /\ UNCHANGED <<chain, hist>>
    \/ \E r \in PaintClips : WithClipRect(r) /\ UNCHANGED <<chain, hist>>
    \/ \E r \in PaintClips : ShrinkClipRect(r) /\ UNCHANGED <<chain, hist>>
    \/ \E r \in PaintClips : SetClipRect(r) /\ UNCHANGED <<chain, hist>>
    \/ \E f \in Fades : SetFadeToColor(f) /\ UNCHANGED <<chain, hist>>
    \/ SetInvisible /\ UNCHANGED <<chain, hist>>
    \/ \E x \in OpacityArgs : SetOpacity(x) /\ UNCHANGED <<chain, hist>>
    \/ \E x \in OpacityArgs : MultiplyOpacity(x) /\ UNCHANGED <<chain, hist>>
    \/ IsVisible
    \/ RequestDiscard
    \/ BeginPass

SpecPainter == Init /\ [][NextPainter]_vars

\* add / extend / set through arbitrary painters, in any interleaving.
NextPaint ==
    \/ \E self \in PainterValues, shape \in ShapeArgs : Add(self, shape)
    \/ \E self \in PainterValues, shapes \in ShapeSeqs(MaxShapes) : Extend(self, shapes)
    \/ \E self \in PainterValues, idx \in ShapeIdxs, shape \in ShapeArgs :
          Set(self, idx, shape)
    \/ BeginPass

SpecPaint == Init /\ [][NextPaint]_vars

----------------------------------------------------------------------------
(* Claims about the painter configuration *)

\* C1: after any chain of with_clip_rect / shrink_clip_rect calls, everything
\* visible through the painter's clip rect is visible through the clip rect of
\* every ancestor painter of the chain.
C1_ClipMonotone ==
    \A i \in 1..Len(chain) : RectSubset(painter.clip_rect, chain[i])

\* A chain of two calls that shrank the clip rect twice and left it non-empty.
C1_Witness ==
    /\ Len(chain) >= 2
    /\ last.op \in {"with_clip_rect", "shrink_clip_rect"}
    /\ Points(painter.clip_rect) # {}
    /\ Points(painter.clip_rect) # Points(chain[Len(chain)])
    /\ Points(chain[Len(chain)]) # Points(chain[Len(chain) - 1])

\* C2: set_opacity(x) with a finite x leaves opacity() = clamp(x, 0, 1); with a
\* non-finite x it leaves opacity() as it was before the call.
C2_SetOpacityClamps ==
    [][last'.op = "set_opacity" =>
          IF last'.arg.cls = "finite"
          THEN Painter_opacity(painter') =
                  (IF last'.arg.v < 0 THEN 0
                   ELSE IF last'.arg.v > One THEN One ELSE last'.arg.v)
          ELSE Painter_opacity(painter') = Painter_opacity(painter)]_vars

\* set_opacity was called with a finite value above 1.0 and the factor is 1.0.
C2_Witness ==
    /\ last.op = "set_opacity"
    /\ last.arg = Finite(2 * One)
    /\ Painter_opacity(painter) = One

\* The f32 product of the clamped finite arguments args[order[1]],
\* args[order[2]], ..., multiplied into acc one after the other.
RECURSIVE ProductInOrder(_, _, _, _)
ProductInOrder(acc, args, order, k) ==
    IF k > Len(order) THEN acc
    ELSE LET x == args[order[k]]
         IN  ProductInOrder(IF x.cls = "finite"
                            THEN FMul(acc, IF x.v < 0 THEN 0
                                           ELSE IF x.v > One THEN One ELSE x.v)
                            ELSE acc,
                            args, order, k + 1)

\* The orders in which n calls can be made.
Orders(n) == {f \in [1..n -> 1..n] : \A i, j \in 1..n : f[i] = f[j] => i = j}
CallOrder(n) == [i \in 1..n |-> i]

NumFinite(args) == Cardinality({i \in 1..Len(args) : args[i].cls = "finite"})

\* C3 as stated: starting from 1.0, the factor after any sequence of
\* multiply_opacity calls is the product of the clamped finite arguments,
\* whatever the order in which the calls are made.
C3_AnyOrder ==
    hist.from_new =>
        \A order \in Orders(Len(hist.args)) :
            painter.opacity_factor = ProductInOrder(One, hist.args, order, 1)

\* C3 as amended: starting from 1.0, the factor is the f32 product of the
\* clamped finite arguments taken in call order, non-finite arguments being
\* ignored; it is independent of the order of the calls when at most two of
\* the arguments are finite.
C3_CallOrder ==
    hist.from_new =>
        /\ painter.opacity_factor =
              ProductInOrder(One, hist.args, CallOrder(Len(hist.args)), 1)
        /\ NumFinite(hist.args) <= 2 =>
              \A order \in Orders(Len(hist.args)) :
                  painter.opacity_factor = ProductInOrder(One, hist.args, order, 1)

\* multiply_opacity(0.5), a non-finite argument, then multiply_opacity(0.5):
\* the factor is 0.25.
C3_Witness ==
    /\ hist.from_new
    /\ last.op = "multiply_opacity"
    /\ hist.args = <<Finite(One \div 2), NaN, Finite(One \div 2)>>
    /\ painter.opacity_factor = One \div 4

\* C4: the opacity factor of a painter made by Painter::new, and of every
\* painter derived from it, stays in [0, 1] under any set_opacity and
\* multiply_opacity calls.
C4_OpacityInRange ==
    0 <= painter.opacity_factor /\ painter.opacity_factor <= One

\* multiply_opacity was called with a finite value above 1.0 on a factor
\* strictly between 0 and 1.
C4_Witness ==
    /\ last.op = "multiply_opacity"
    /\ last.arg = Finite(2 * One)
    /\ 0 < painter.opacity_factor /\ painter.opacity_factor < One

----------------------------------------------------------------------------
(* Claims about painting *)

\* The painter stores Shape::Noop in add and nothing in extend.
Invisible(self) ==
    self.fade_to_color = Some(TRANSPARENT) \/ self.opacity_factor = 0

PlaceholderKept(given, stored) ==
    /\ given.fill = PLACEHOLDER => stored.fill = PLACEHOLDER
    /\ given.stroke = PLACEHOLDER => stored.stroke = PLACEHOLDER

LastEntry(list) == list[Len(list)]

\* C5: whatever the fade and the opacity of the painter, a color that is the
\* placeholder in the shape given to add or set is the placeholder in the
\* shape stored.
C5_PlaceholderImmune ==
    [][/\ last'.op = "add" =>
             \A self \in PainterValues, shape \in ShapeArgs :
                 Add(self, shape) /\ ~Invisible(self) =>
                     PlaceholderKept(shape, LastEntry(graphics'[self.layer_id]).shape)
       /\ last'.op = "set" =>
             \A self \in PainterValues, shape \in ShapeArgs :
                 /\ Set(self, last'.idx, shape)
                 /\ last'.idx < Len(graphics[self.layer_id])
                 /\ self.fade_to_color # Some(TRANSPARENT)
                 => PlaceholderKept(shape, graphics'[self.layer_id][last'.idx + 1].shape)
      ]_vars

\* An add stored a shape whose fill is still the placeholder and whose stroke
\* was transformed.
C5_Witness ==
    /\ last.op = "add"
    /\ \E l \in LayerIds :
          /\ Len(graphics[l]) = last.idx + 1
          /\ LastEntry(graphics[l]).shape.kind = "Rect"
          /\ LastEntry(graphics[l]).shape.fill = PLACEHOLDER
          /\ LastEntry(graphics[l]).shape.stroke # WHITE

\* C6: every add appends exactly one entry to the paint list of the painter's
\* layer and returns its index; an invisible painter stores Shape::Noop with
\* the painter's clip rect.
C6_AddOccupiesSlot ==
    [][last'.op = "add" =>
          \A self \in PainterValues, shape \in ShapeArgs :
              Add(self, shape) =>
                  /\ Len(graphics'[self.layer_id]) = Len(graphics[self.layer_id]) + 1
                  /\ TotalShapes(graphics') = TotalShapes(graphics) + 1
                  /\ last'.idx + 1 = Len(graphics'[self.layer_id])
                  /\ Invisible(self) =>
                        graphics'[self.layer_id][last'.idx + 1] =
                            ClippedShape(self.clip_rect, Noop)
      ]_vars

\* An add through an invisible painter stored Shape::Noop behind an entry that
\* holds a shape.
C6_Witness ==
    /\ last.op = "add"
    /\ last.idx = 1
    /\ \E l \in LayerIds :
          /\ Len(graphics[l]) = 2
          /\ graphics[l][1].shape.kind = "Rect"
          /\ graphics[l][2].shape = Noop

\* The graphics after add was called on each shape, in order.
RECURSIVE AddEach(_, _, _, _)
AddEach(self, g, shapes, k) ==
    IF k > Len(shapes) THEN g
    ELSE AddEach(self, Painter_add(self, g, shapes[k]).g, shapes, k + 1)

\* C7 as stated: for every painter, extend(shapes) leaves the paint lists as
\* add on each shape, in order, leaves them.
C7_ExtendIsAddEach ==
    [][last'.op = "extend" =>
          \A self \in PainterValues, shapes \in ShapeSeqs(MaxShapes) :
              Extend(self, shapes) => graphics' = AddEach(self, graphics, shapes, 1)
      ]_vars

\* C7 as amended: for every painter that is not invisible, extend(shapes)
\* leaves the paint lists as add on each shape, in order, leaves them; through
\* an invisible painter extend stores nothing.
C7_VisibleExtendIsAddEach ==
    [][last'.op = "extend" =>
          \A self \in PainterValues, shapes \in ShapeSeqs(MaxShapes) :
              Extend(self, shapes) =>
                  IF Invisible(self) THEN graphics' = graphics
                  ELSE graphics' = AddEach(self, graphics, shapes, 1)
      ]_vars

\* An extend of two shapes stored two different transformed shapes.
C7_Witness ==
    /\ last.op = "extend"
    /\ last.idx = 2
    /\ \E l \in LayerIds :
          /\ Len(graphics[l]) = 2
          /\ graphics[l][1].shape.kind = "Rect"
          /\ graphics[l][1].shape \notin ShapeArgs
          /\ graphics[l][2].shape.kind = "Rect"
          /\ graphics[l][2].shape \notin ShapeArgs
          /\ graphics[l][1].shape # graphics[l][2].shape

\* C8: an add, through whichever painter, puts its entry behind every entry
\* already in the list of its layer and changes or moves no entry stored
\* before, in any layer: the lists are in call order and every index returned
\* earlier designates the same entry.
C8_AddKeepsOrder ==
    [][last'.op = "add" =>
          \A self \in PainterValues, shape \in ShapeArgs :
              Add(self, shape) =>
                  /\ \A l \in LayerIds : \A i \in 1..Len(graphics[l]) :
                        /\ i <= Len(graphics'[l])
                        /\ graphics'[l][i] = graphics[l][i]
                  /\ \A l \in LayerIds \ {self.layer_id} : graphics'[l] = graphics[l]
                  /\ LastEntry(graphics'[self.layer_id]).clip_rect = self.clip_rect
                  /\ ~Invisible(self) =>
                        LastEntry(graphics'[self.layer_id]).shape =
                            Painter_transform_shape(self, shape)
      ]_vars

\* Two adds on one layer through painters with different clip rects: the
\* second entry is the one added last.
C8_Witness ==
    /\ last.op = "add"
    /\ last.idx = 1
    /\ \E l \in LayerIds :
          /\ Len(graphics[l]) = 2
          /\ graphics[l][1].clip_rect # graphics[l][2].clip_rect
          /\ graphics[l][1].shape.kind = "Rect"
          /\ graphics[l][2].shape.kind = "Rect"
          /\ graphics[l][1].shape # graphics[l][2].shape

\* The lists differ at most in the entry idx of the list of layer l.
OnlyEntryChanged(g, h, l, idx) ==
    /\ \A k \in LayerIds : Len(h[k]) = Len(g[k])
    /\ \A k \in LayerIds : \A i \in 1..Len(g[k]) :
          (k # l \/ i # idx + 1) => h[k][i] = g[k][i]

\* C9 as stated: set(idx, shape) with the index of an entry of the painter's
\* layer replaces that entry by the transformed shape with the painter's clip
\* rect, and changes neither the length of a list nor any other entry.
C9_SetReplaces ==
    [][last'.op = "set" =>
          \A self \in PainterValues, shape \in ShapeArgs :
              Set(self, last'.idx, shape) /\ last'.idx < Len(graphics[self.layer_id]) =>
                  /\ OnlyEntryChanged(graphics, graphics', self.layer_id, last'.idx)
                  /\ graphics'[self.layer_id][last'.idx + 1] =
                        ClippedShape(self.clip_rect, Painter_transform_shape(self, shape))
      ]_vars

\* C9 as amended: the same, unless the painter's fade_to_color is fully
\* transparent: then set changes nothing, the entry at idx included.
C9_SetReplacesUnlessTransparent ==
    [][last'.op = "set" =>
          \A self \in PainterValues, shape \in ShapeArgs :
              Set(self, last'.idx, shape) /\ last'.idx < Len(graphics[self.layer_id]) =>
                  /\ OnlyEntryChanged(graphics, graphics', self.layer_id, last'.idx)
                  /\ graphics'[self.layer_id][last'.idx + 1] =
                        IF self.fade_to_color = Some(TRANSPARENT)
                        THEN graphics[self.layer_id][last'.idx + 1]
                        ELSE ClippedShape(self.clip_rect,
                                          Painter_transform_shape(self, shape))
      ]_vars

\* A set replaced the first of two entries by a shape transformed with
\* opacity 0.0, which only set stores.
C9_Witness ==
    /\ last.op = "set"
    /\ last.idx = 0
    /\ \E l \in LayerIds :
          /\ Len(graphics[l]) = 2
          /\ graphics[l][1].shape = RectShape(PLACEHOLDER, TRANSPARENT)
          /\ graphics[l][2].shape \in ShapeArgs

\* C10 as stated: is_visible() is false exactly when the painter is faded to
\* transparent, or its opacity factor is 0.0, or the pass will be discarded.
C10_IsVisibleMatchesAdd ==
    last.op = "is_visible" =>
        (last.vis <=> ~(Invisible(painter) \/ will_discard))

----------------------------------------------------------------------------
(* Specifications of the panels and of the strip *)

\* One panel in every pass, pass after pass: what a pass stores is what the
\* next pass loads.
NextExtent ==
    \/ \E s \in Screens : BeginPassOn(s)
    \/ \E p \in ExtentSidePanels, r \in ExtentResponses, c \in Contents :
          shown = <<>> /\ SidePanelShow(p, r, c)
    \/ \E p \in ExtentTopBottomPanels, r \in ExtentResponses, c \in Contents :
          shown = <<>> /\ TopBottomPanelShow(p, r, c)

SpecExtent == Init /\ [][NextExtent]_vars

\* Passes in which a panel with a resize handle is shown: what was stored or
\* loaded decides the extent, a drag of the handle registered before changes
\* it, and the handle is interacted with after the content.
NextResize ==
    \/ \E s \in Screens : BeginPassOn(s)
    \/ \E d \in ResizePersisted : LoadPersisted(d)
    \/ \E p \in ResizeSidePanels, r \in ResizeResponses, c \in ResizeContents :
          shown = <<>> /\ SidePanelShow(p, r, c)
    \/ \E p \in ResizeTopBottomPanels, r \in ResizeResponses, c \in ResizeContents :
          shown = <<>> /\ TopBottomPanelShow(p, r, c)

SpecResize == Init /\ [][NextResize]_vars

\* Passes in which one panel is shown, at the top level or inside the Ui of
\* the pass: what it stores is what the next pass finds.
NextStore ==
    \/ \E s \in Screens : BeginPassOn(s)
    \/ \E p \in StoreSidePanels, r \in ExtentResponses, c \in Contents :
          shown = <<>> /\ SidePanelShow(p, r, c)
    \/ \E p \in StoreTopBottomPanels, r \in ExtentResponses, c \in Contents :
          shown = <<>> /\ TopBottomPanelShow(p, r, c)
    \/ \E p \in StoreSidePanels, r \in ExtentResponses, c \in Contents :
          shown = <<>> /\ SidePanelShowInside(p, r, c)
    \/ \E p \in StoreTopBottomPanels, r \in ExtentResponses, c \in Contents :
          shown = <<>> /\ TopBottomPanelShowInside(p, r, c)

SpecStore == Init /\ [][NextStore]_vars

\* One pass of top-level panels on any of the screens.
NextPanels ==
    \/ \E s \in Screens : shown = <<>> /\ BeginPassOn(s)
    \/ \E p \in PassSidePanels, r \in PassResponses, c \in PassContents :
          SidePanelShow(p, r, c)
    \/ \E p \in PassTopBottomPanels, c \in PassContents :
          TopBottomPanelShow(p, NoResponse, c)
    \/ \E c \in PassContents : CentralPanelShow(c)

SpecPanels == Init /\ [][NextPanels]_vars

\* One pass of panels at the top level and inside a parent Ui.
NextInside ==
    \/ \E s \in Screens : shown = <<>> /\ BeginPassOn(s)
    \/ \E p \in InsideSidePanels, c \in InsideContents : SidePanelShow(p, NoResponse, c)
    \/ \E p \in InsideTopBottomPanels, c \in InsideContents :
          TopBottomPanelShow(p, NoResponse, c)
    \/ \E c \in InsideContents : CentralPanelShow(c)
    \/ \E p \in InsideSidePanels, c \in InsideContents :
          SidePanelShowInside(p, NoResponse, c)
    \/ \E p \in InsideTopBottomPanels, c \in InsideContents :
          TopBottomPanelShowInside(p, NoResponse, c)
    \/ \E c \in InsideContents : CentralPanelShowInside(c)

SpecInside == Init /\ [][NextInside]_vars

\* One animated or plain panel in a pass over what an earlier run persisted.
NextAnimated ==
    \/ \E d \in PersistedData : LoadPersisted(d)
    \/ \E s \in Screens : shown = <<>> /\ BeginPassOn(s)
    \/ \E p \in SidePanels, c \in Contents :
          shown = <<>> /\ SidePanelShow(p, NoResponse, c)
    \/ \E p \in TopBottomPanels, c \in Contents :
          shown = <<>> /\ TopBottomPanelShow(p, NoResponse, c)
    \/ \E p \in SidePanels, h \in Progress, c \in Contents :
          shown = <<>> /\ SidePanelShowAnimated(p, h, NoResponse, c)
    \/ \E p \in SidePanels, h \in Progress, c \in Contents :
          shown = <<>> /\ SidePanelShowAnimatedInside(p, h, NoResponse, c)
    \/ \E p, q \in SidePanels, h \in Progress, c \in Contents :
          shown = <<>> /\ SidePanelShowAnimatedBetween(p, q, h, NoResponse, c)
    \/ \E p, q \in SidePanels, h \in Progress, c \in Contents :
          shown = <<>> /\ SidePanelShowAnimatedBetweenInside(p, q, h, NoResponse, c)
    \/ \E p \in TopBottomPanels, h \in Progress, c \in Contents :
          shown = <<>> /\ TopBottomPanelShowAnimated(p, h, NoResponse, c)
    \/ \E p \in TopBottomPanels, h \in Progress, c \in Contents :
          shown = <<>> /\ TopBottomPanelShowAnimatedInside(p, h, NoResponse, c)
    \/ \E p, q \in TopBottomPanels, h \in Progress, c \in Contents :
          shown = <<>> /\ TopBottomPanelShowAnimatedBetween(p, q, h, NoResponse, c)
    \/ \E p, q \in TopBottomPanels, h \in Progress, c \in Contents :
          shown = <<>> /\ TopBottomPanelShowAnimatedBetweenInside(p, q, h, NoResponse, c)

SpecAnimated == Init /\ [][NextAnimated]_vars

\* A strip of up to MaxLines lines of up to MaxCells cells.
NextStrip ==
    \/ \E u \in StripUis, d \in CellDirections : StripNew(u, d, TRUE)
    \/ \E f \in CellFlags, s \in AbsoluteSizes, c \in CellContents :
          StripAdd(f, s, s, c)
    \/ \E s \in CellSizes : StripEmpty(s, s)
    \/ StripEndLine

SpecStrip == Init /\ [][NextStrip]_vars

\* Cells with every combination of flags, in strips that sense clicks and
\* drags and in strips that do not.
NextFlags ==
    \/ \E d \in CellDirections, i \in BOOLEAN :
          StripNew(StripUiOf(StripRect, item_spacing, FALSE), d, i)
    \/ \E f \in AllCellFlags :
          StripAdd(f, Absolute(Pt(10)), Absolute(Pt(10)), Pos(Pt(5), Pt(5)))

SpecFlags == Init /\ [][NextFlags]_vars

\* Every StripLayout call, in a Ui with little room.
NextCells ==
    \/ \E u \in SmallStripUis, d \in CellDirections : StripNew(u, d, TRUE)
    \/ \E f \in CellFlags :
          StripAdd(f, Absolute(Pt(30)), Absolute(Pt(30)), Pos(Pt(40), Pt(35)))
    \/ StripEmpty(Remainder, Remainder)
    \/ StripEndLine
    \/ \E delta \in SkippedSpaces : StripSkipSpace(delta)
    \/ StripAllocateRect

SpecCells == Init /\ [][NextCells]_vars

----------------------------------------------------------------------------
(* Claims: panels *)

IsSide(panel) == panel.side \in {"Left", "Right"}
\* No drag of the resize handle is in progress.
NoDrag(response) == ~(response.some /\ response.dragged)
\* The extent a panel has along its axis in the rect stored for its id,
\* and the extent it is configured to start with.
StoredExtent(panel, rect) == IF IsSide(panel) THEN Rect_width(rect) ELSE Rect_height(rect)
DefaultExtent(panel) ==
    IF IsSide(panel) THEN panel.default_width
    ELSE IF panel.default_height.some THEN panel.default_height.v
    ELSE interact_size_y
         + (IF panel.frame.some THEN panel.frame.v.y ELSE Frame_side_top_panel.y)
ExtentRange(panel) == IF IsSide(panel) THEN panel.width_range ELSE panel.height_range
\* clamp(e, [min, max]) and the whole formula of the extent.
Clamped(e, range) == IF e < range.min THEN range.min ELSE IF e > range.max THEN range.max ELSE e
CandidateExtent(panel, data) ==
    IF data[panel.id].some THEN StoredExtent(panel, data[panel.id].v)
    ELSE DefaultExtent(panel)
ClampedExtent(panel, data, available) ==
    Min2(Clamped(CandidateExtent(panel, data), ExtentRange(panel)),
         StoredExtent(panel, available))
PlainShows == {"SidePanel::show", "TopBottomPanel::show"}

\* C11: with no drag in progress, the extent a side or top/bottom panel
\* decides on in a pass is min(clamp(e, [min, max]), available extent), where
\* e is the extent of the rect stored under the panel's id if there is one and
\* the configured default otherwise; the panel rect has that extent, rounded
\* to whole points.
C11_ExtentClampedThenCapped ==
    [][(plast'.op \in PlainShows /\ NoDrag(plast'.response)) =>
          /\ plast'.extent = ClampedExtent(plast'.panel, persisted, available_rect)
          /\ Abs(StoredExtent(plast'.panel, shown'[Len(shown')].panel_rect)
                 - plast'.extent) < Pt(1)]_vars

\* The example: width_range [96, 400], default 200, nothing stored, 50
\* points available: the panel is 50 points wide.
C11_Witness ==
    /\ plast.op = "SidePanel::show"
    /\ plast.panel.width_range = Rangef(Pt(96), Pt(400))
    /\ plast.panel.default_width = Pt(200)
    /\ ~plast.response.some
    /\ Rect_width(shown[1].available) = Pt(50)
    /\ plast.extent = Pt(50)
    /\ Rect_width(shown[1].panel_rect) = Pt(50)

\* The kinds of the top-level panels shown so far in the pass, in call order.
Kinds == [i \in 1..Len(shown) |-> shown[i].kind]
\* What the pass budget leaves of a width W beside a left panel l_width and
\* a right panel r_width wide, to within a point.
LeavesBeside(central, W, l_width, r_width) == Abs(central - (W - l_width - r_width)) < Pt(1)

\* C12 as stated, the width of a panel being the width of the rect its show
\* returns: after a left, a right and the central panel, the central
\* panel's available width is W - left_width - right_width to within a point.
C12_CentralGetsTheRest ==
    Kinds = <<"Left", "Right", "Central">> =>
        LeavesBeside(Rect_width(shown[3].available), Rect_width(shown[1].available),
                     Rect_width(shown[1].rect), Rect_width(shown[2].rect))

\* C12: after a left, a right and the central panel, the central panel's
\* available width is, to within a point, W minus the width of the rect the
\* left panel's frame took and minus the width of the right panel's panel
\* rect (the extent decided before its content ran); the left panel took no
\* budget but its rect, the right panel everything from its rect's left edge.
C12_CentralGetsTheRestOfTheRegions ==
    Kinds = <<"Left", "Right", "Central">> =>
        /\ LeavesBeside(Rect_width(shown[3].available), Rect_width(shown[1].available),
                        Rect_width(shown[1].rect), Rect_width(shown[2].panel_rect))
        /\ shown[2].available.min.x = shown[1].rect.max.x
        /\ shown[3].available.max.x = shown[2].rect.min.x
        /\ shown[2].rect.min.x = shown[2].panel_rect.min.x

\* A left, a right and the central panel on the 1000 points wide screen, the
\* right panel's content being narrower than the panel: the right panel's
\* rect is narrower than the region it took.
C12_Witness ==
    /\ Kinds = <<"Left", "Right", "Central">>
    /\ Rect_width(shown[1].available) = Pt(1000)
    /\ Rect_width(shown[1].rect) = Pt(200)
    /\ Rect_width(shown[2].panel_rect) = Pt(200)
    /\ Rect_width(shown[2].rect) = Pt(116)
    /\ Rect_width(shown[3].available) = Pt(600)

\* Two rects have more than a rect `slack` wide and high in common.
OverlapBy(a, b, slack) ==
    /\ Rect_width(intersect(a, b)) > slack
    /\ Rect_height(intersect(a, b)) > slack
\* The part of a panel that can be seen: its frame, clipped to the panel rect.
Visible(p) == intersect(p.rect, p.panel_rect)
HasPoints(r) == Rect_width(r) > 0 /\ Rect_height(r) > 0
\* The available rects of the pass in call order, the current one last.
Availables == [i \in 1..(Len(shown) + 1) |->
                  IF i <= Len(shown) THEN shown[i].available ELSE available_rect]

\* C13 as stated: the regions that distinct top-level panels of one pass
\* reported to the pass (allocate_*_panel) are pairwise non-overlapping.
C13_ClaimedRegionsDisjoint ==
    \A i, j \in 1..Len(shown) :
        i < j => ~OverlapBy(shown[i].reported, shown[j].reported, 0)

\* C13: the visible parts of distinct top-level panels of one pass (the
\* frame's rect clipped to the panel rect) have no more than the rounding of
\* a panel rect, half a point, in common, and every show leaves an available
\* rect that has no point outside the available rect it found, or is no more
\* than that rounding wide or high.
C13_VisiblePartsDisjoint ==
    /\ \A i, j \in 1..Len(shown) :
          i < j => \/ 2 * Rect_width(intersect(Visible(shown[i]), Visible(shown[j]))) <= Pt(1)
                   \/ 2 * Rect_height(intersect(Visible(shown[i]), Visible(shown[j]))) <= Pt(1)
    /\ \A i \in 1..Len(shown) :
          \/ 2 * Rect_width(Availables[i + 1]) <= Pt(1)
          \/ 2 * Rect_height(Availables[i + 1]) <= Pt(1)
          \/ /\ Availables[i + 1].min.x >= Availables[i].min.x
             /\ Availables[i + 1].min.y >= Availables[i].min.y
             /\ Availables[i + 1].max.x <= Availables[i].max.x
             /\ Availables[i + 1].max.y <= Availables[i].max.y

\* On the screen 50 points wide, narrower than the least width of a side
\* panel, a right panel and then a left panel: both are seen, and the region
\* the left panel reported covers the one the right panel reported.
C13_Witness ==
    /\ Len(shown) >= 2
    /\ shown[1].kind = "Right"
    /\ shown[2].kind = "Left"
    /\ Rect_width(shown[1].available) = Pt(50)
    /\ HasPoints(Visible(shown[1]))
    /\ OverlapBy(shown[1].reported, shown[2].reported, 0)

InsideShows ==
    {"SidePanel::show_inside", "TopBottomPanel::show_inside", "CentralPanel::show_inside"}
TopLevelShows == {"SidePanel::show", "TopBottomPanel::show", "CentralPanel::show"}
AllocateEvents ==
    {"allocate_left_panel", "allocate_right_panel", "allocate_top_panel",
     "allocate_bottom_panel", "allocate_central_panel"}
\* How many times a call reported a region to the pass.
NumAllocated(log) == Cardinality({i \in 1..Len(log) : log[i].ev \in AllocateEvents})

\* C14: show_inside of a SidePanel, TopBottomPanel or CentralPanel leaves the
\* available rect of the pass as it was and reports nothing to the pass; a
\* top-level show reports one region, once, and moves no parent cursor.
C14_OnlyTopLevelReports ==
    [][/\ plast'.op \in InsideShows =>
             /\ available_rect' = available_rect
             /\ NumAllocated(plast'.log) = 0
       /\ plast'.op \in TopLevelShows =>
             /\ NumAllocated(plast'.log) = 1
             /\ plast'.log[Len(plast'.log)].ev \in AllocateEvents
             /\ cursor' = cursor]_vars

\* A side panel shown inside a parent Ui on the large screen: the parent's
\* cursor has moved, the whole screen is still available.
C14_Witness ==
    /\ plast.op = "SidePanel::show_inside"
    /\ Len(shown) = 1
    /\ available_rect = PanelScreen
    /\ cursor # PanelScreen
    /\ persisted[plast.panel.id].some

SameSize(a, b) == Rect_width(a) = Rect_width(b) /\ Rect_height(a) = Rect_height(b)

\* C15: a panel that was the panel of the pass before, and is shown again
\* with the same id and configuration and the same content, finding the same
\* available rect, with no drag, returns and stores a rect of the width and
\* height of the rect it returned and stored in the pass before.
C15_SecondPassSameSize ==
    [][(/\ plast.op = "begin_pass"
        /\ plast.ret.some
        /\ plast'.op \in PlainShows
        /\ plast'.panel = plast.panel
        /\ plast'.content = plast.content
        /\ plast'.available = plast.available
        /\ NoDrag(plast'.response)) =>
          /\ persisted[plast.panel.id] = plast.ret
          /\ SameSize(plast'.ret.v, plast.ret.v)
          /\ SameSize(persisted'[plast.panel.id].v, persisted[plast.panel.id].v)]_vars

\* The resizable left panel in the pass after one in which it was dragged to
\* 150 points: it loads the rect it stored and returns one of the same size.
C15_Witness ==
    /\ plast.op = "SidePanel::show"
    /\ plast.panel.resizable
    /\ plast.loaded.some
    /\ ~plast.response.some
    /\ plast.content.fill
    /\ plast.available = PanelScreen
    /\ Rect_width(plast.loaded.v) = Pt(150)
    /\ plast.extent = Pt(150)
    /\ SameSize(plast.ret.v, plast.loaded.v)
    /\ persisted[plast.panel.id] = plast.ret

----------------------------------------------------------------------------
(* Claims: the animated panels *)

AnimatedShows ==
    {"SidePanel::show_animated", "SidePanel::show_animated_inside",
     "TopBottomPanel::show_animated", "TopBottomPanel::show_animated_inside"}
BetweenShows ==
    {"SidePanel::show_animated_between", "SidePanel::show_animated_between_inside",
     "TopBottomPanel::show_animated_between",
     "TopBottomPanel::show_animated_between_inside"}

\* C16: show_animated and show_animated_inside at progress 0.0 return None
\* and make no call at all: no content callback, no panel, no PanelState
\* stored, the available rect and the parent's cursor as they were.
C16_HiddenAtZero ==
    [][(plast'.op \in AnimatedShows /\ plast'.how_expanded = 0) =>
          /\ ~plast'.ret.some
          /\ plast'.log = <<>>
          /\ persisted' = persisted
          /\ available_rect' = available_rect
          /\ cursor' = cursor]_vars

\* show_animated of a side panel at progress 0.0 on the large screen, with a
\* PanelState of an earlier run persisted under its id.
C16_Witness ==
    /\ plast.op = "SidePanel::show_animated"
    /\ plast.how_expanded = 0
    /\ plast.loaded.some
    /\ ~plast.ret.some
    /\ persisted[plast.panel.id] = plast.loaded
    /\ available_rect = PanelScreen

\* How many times a call ran the content callback.
NumContents(log) == Cardinality({i \in 1..Len(log) : log[i].ev = "add_contents"})
\* What show of the panel does in the context a call found.
PlainShow(panel, response, content) ==
    IF IsSide(panel) THEN SidePanel_show_dyn(panel, TheWorld, response, content)
    ELSE TopBottomPanel_show_dyn(panel, TheWorld, response, content)

\* C17: show_animated at progress 1.0 returns Some of what show of the same
\* panel with the same inputs returns, and has the effects of that show: the
\* same calls in the same order (the content callback once among them), the
\* same PanelStates persisted, the same available rect left.
C17_ShownAtOne ==
    [][(/\ plast'.op \in {"SidePanel::show_animated", "TopBottomPanel::show_animated"}
        /\ plast'.how_expanded = ProgressSteps) =>
          LET r == PlainShow(plast'.panel, plast'.response, plast'.content)
          IN  /\ plast'.ret = SomeRect(r.rect)
              /\ plast'.log = r.w.log
              /\ NumContents(plast'.log) = 1
              /\ NumAllocated(plast'.log) = 1
              /\ persisted' = r.w.persisted
              /\ available_rect' = r.w.available_rect
              /\ cursor' = cursor]_vars

\* show_animated of the left panel at progress 1.0: the panel is returned,
\* its rect is stored under its id, and the available rect starts where the
\* panel ends.
C17_Witness ==
    /\ plast.op = "SidePanel::show_animated"
    /\ plast.how_expanded = ProgressSteps
    /\ plast.panel.side = "Left"
    /\ plast.ret.some
    /\ persisted[plast.panel.id] = plast.ret
    /\ ~persisted[Id_with(plast.panel.id, "animating_panel")].some
    /\ available_rect.min.x = plast.ret.v.max.x
    /\ NumContents(plast.log) = 1

\* The events of a log that name an id, and the ids they name.
IdsCalled(log) == {log[i].id : i \in {j \in 1..Len(log) : log[j].ev # "add_contents"
                                                         /\ log[j].ev \notin AllocateEvents}}

\* C18: at a progress strictly between 0.0 and 1.0 every show_animated* and
\* show_animated_between* variant shows one panel, under the id
\* id.with("animating_panel") of the (expanded) panel: that is the only id it
\* checks, and the only one it stores a PanelState under; it registers no
\* resize handle; the PanelStates under the panels' own ids stay as they were.
C18_FakePanelInBetween ==
    [][(/\ plast'.op \in AnimatedShows \cup BetweenShows
        /\ 0 < plast'.how_expanded
        /\ plast'.how_expanded < ProgressSteps) =>
          /\ IdsCalled(plast'.log) = {Id_with(plast'.panel.id, "animating_panel")}
          /\ persisted'[Id_with(plast'.panel.id, "animating_panel")].some
          /\ \A i \in 1..Len(plast'.log) : plast'.log[i].ev # "interact"
          /\ \A id \in PanelIds : persisted'[id] = persisted[id]]_vars

\* show_animated_between of two side panels half way, the expanded panel
\* having a PanelState persisted: the fake panel's rect is stored under the
\* derived id, between the widths of the two.
C18_Witness ==
    /\ plast.op = "SidePanel::show_animated_between"
    /\ plast.how_expanded = 1
    /\ plast.how_expanded < ProgressSteps
    /\ plast.panel.resizable
    /\ plast.loaded.some
    /\ persisted[plast.panel.id] = plast.loaded
    /\ persisted[Id_with(plast.panel.id, "animating_panel")].some
    /\ Rect_width(persisted[Id_with(plast.panel.id, "animating_panel")].v)
           # Rect_width(plast.loaded.v)

----------------------------------------------------------------------------
(* Claims: the strip *)

\* The heights and widths of the rects allocated on a line, and the largest.
Heights(cells) == {Rect_height(cells[i]) : i \in 1..Len(cells)}
Widths(cells) == {Rect_width(cells[i]) : i \in 1..Len(cells)}
Largest(S) == CHOOSE m \in S : \A n \in S : n <= m
\* end_line has just ended a line of a horizontal strip that has cells.
EndsHorizontalLine ==
    /\ slast'.op = "end_line"
    /\ strip.direction = "Horizontal"
    /\ line.cells # <<>>

\* C19 as stated: in a horizontal strip, after cells of heights h1..hn on
\* one line, end_line puts the cursor y at the line's origin y plus
\* max(h1..hn).
C19_NextLineAtTallest ==
    [][EndsHorizontalLine =>
          strip'.cursor.y = line.origin.y + Largest(Heights(line.cells))]_vars

\* C19: in a horizontal strip, after cells of heights h1..hn (none negative)
\* on one line, end_line puts the cursor y at the line's origin y plus
\* max(h1..hn) plus the item spacing y, whatever the order of the cells.
C19_NextLineAtTallestPlusSpacing ==
    [][EndsHorizontalLine =>
          /\ strip'.cursor.y = strip.max.y + strip.ui.item_spacing.y
          /\ (\A h \in Heights(line.cells) : h >= 0) =>
                strip'.cursor.y = line.origin.y + Largest(Heights(line.cells))
                                  + strip.ui.item_spacing.y]_vars

\* The example: cells 10, 30 and 15 points high on the first line of a
\* horizontal strip whose item spacing is 3 points; the next line starts 33
\* points below the first.
C19_Witness ==
    /\ slast.op = "end_line"
    /\ strip.direction = "Horizontal"
    /\ strip.ui.item_spacing.y = Pt(3)
    /\ slast.ended.lines = 0
    /\ [i \in 1..Len(slast.ended.cells) |-> Rect_height(slast.ended.cells[i])]
           = <<Pt(10), Pt(30), Pt(15)>>
    /\ strip.cursor.y = slast.ended.origin.y + Pt(33)
    /\ strip.cursor.x = strip.rect.min.x

\* C20: end_line puts the cursor, along the direction of the cells, at the
\* origin of the strip's rect (rect.left of a horizontal strip, rect.top of a
\* vertical one) and, across it, at the high-water mark plus the item
\* spacing of that axis; the high-water mark and the rect stay as they were.
C20_EndLineMovesOnlyTheCursor ==
    [][slast'.op = "end_line" =>
          /\ strip.direction = "Horizontal" =>
                /\ strip'.cursor.x = strip.rect.min.x
                /\ strip'.cursor.y = strip.max.y + strip.ui.item_spacing.y
          /\ strip.direction = "Vertical" =>
                /\ strip'.cursor.y = strip.rect.min.y
                /\ strip'.cursor.x = strip.max.x + strip.ui.item_spacing.x
          /\ strip'.max = strip.max
          /\ strip'.rect = strip.rect
          /\ strip' = [strip EXCEPT !.cursor = strip'.cursor]]_vars

\* end_line of a vertical strip with cells on its line and an item spacing
\* of 8 points: the cursor is back at the top, 8 points right of the widest
\* cell so far.
C20_Witness ==
    /\ slast.op = "end_line"
    /\ strip.direction = "Vertical"
    /\ Len(slast.ended.cells) >= 2
    /\ strip.max.x > strip.rect.min.x
    /\ strip.max.y > strip.rect.min.y
    /\ strip.cursor = Pos(strip.max.x + Pt(8), strip.rect.min.y)
    /\ strip.cursor # slast.ended.origin

\* C21: every add and every empty moves the cursor along the direction of
\* the strip only, to the far edge of the rect it allocated plus the item
\* spacing of that axis (x of a horizontal strip, y of a vertical one); the
\* cursor coordinate across the direction stays as it was.
C21_CursorAdvancesAlongTheStrip ==
    [][slast'.op \in {"add", "empty"} =>
          /\ strip.direction = "Horizontal" =>
                /\ strip'.cursor.x = slast'.allocation.max.x + strip.ui.item_spacing.x
                /\ strip'.cursor.y = strip.cursor.y
          /\ strip.direction = "Vertical" =>
                /\ strip'.cursor.y = slast'.allocation.max.y + strip.ui.item_spacing.y
                /\ strip'.cursor.x = strip.cursor.x
          /\ slast'.allocation.min = strip.cursor]_vars

\* An empty cell of 15 by 15 points after another cell in a vertical strip
\* with an item spacing of (8, 3): the cursor is 3 points below the cell and
\* as far right as the strip's origin.
C21_Witness ==
    /\ slast.op = "empty"
    /\ strip.direction = "Vertical"
    /\ strip.ui.item_spacing = Pos(Pt(8), Pt(3))
    /\ Len(line.cells) = 2
    /\ Rect_height(slast.allocation) = Pt(15)
    /\ strip.cursor.y = slast.allocation.max.y + Pt(3)
    /\ strip.cursor.x = strip.rect.min.x
    /\ strip.cursor.y > strip.rect.min.y + Pt(18)

\* The max rect of the cell the last add was given, and the rect its
\* content took, from the strip before the call.
MaxRectOf(self, args) == StripLayout_cell_rect(self, args.width, args.height)
UsedRectOf(self, args) ==
    [min |-> self.cursor,
     max |-> Pos(self.cursor.x + args.content.x, self.cursor.y + args.content.y)]

\* C22: the rect add allocates (it advances the cursor by it and reports it
\* to the parent Ui) is the used rect alone when the strip's Ui is in a
\* sizing pass, also for a clipped cell; else the max rect alone when
\* flags.clip is set, so that the cursor ends where it would for an empty
\* cell of the same size; else the union of the max rect and the used rect.
\* The rect add returns is the used rect in every case.
C22_AllocatedRectOfAdd ==
    [][slast'.op = "add" =>
          /\ slast'.rect = UsedRectOf(strip, slast'.args)
          /\ strip.ui.sizing_pass =>
                slast'.allocation = UsedRectOf(strip, slast'.args)
          /\ (~strip.ui.sizing_pass /\ slast'.args.flags.clip) =>
                /\ slast'.allocation = MaxRectOf(strip, slast'.args)
                /\ strip' = StripLayout_empty(strip, slast'.args.width,
                                              slast'.args.height)
          /\ (~strip.ui.sizing_pass /\ ~slast'.args.flags.clip) =>
                slast'.allocation = Rect_union(MaxRectOf(strip, slast'.args),
                                               UsedRectOf(strip, slast'.args))
          /\ strip' = StripLayout_set_pos(strip, slast'.allocation)]_vars

\* A clipped cell of 10 by 10 points whose content takes 40 by 35, outside a
\* sizing pass, after another cell: the max rect is allocated, the larger
\* used rect is returned, and the cursor is 8 points right of the max rect.
C22_Witness ==
    /\ slast.op = "add"
    /\ slast.args.flags.clip
    /\ ~strip.ui.sizing_pass
    /\ strip.direction = "Horizontal"
    /\ Len(line.cells) = 2
    /\ Rect_width(slast.allocation) = Pt(10)
    /\ Rect_height(slast.allocation) = Pt(10)
    /\ Rect_width(slast.rect) = Pt(40)
    /\ Rect_height(slast.rect) = Pt(35)
    /\ strip.cursor.x = slast.allocation.max.x + Pt(8)

\* The paint calls in the order add and cell can make them.
PaintOrder == <<"striped", "selected", "hovered", "overline", "contents">>
\* The positions in a paint sequence at which `what` was painted.
PaintedAt(painted, what) == {i \in 1..Len(painted) : painted[i] = what}
\* No paint call is made twice, and the calls made are in the order of
\* PaintOrder.
InPaintOrder(painted) ==
    \A i, j \in 1..Len(PaintOrder) :
        /\ Cardinality(PaintedAt(painted, PaintOrder[i])) <= 1
        /\ i < j =>
              \A a \in PaintedAt(painted, PaintOrder[i]),
                 b \in PaintedAt(painted, PaintOrder[j]) : a < b

\* C23: whatever the flags, add paints the striped background iff
\* flags.striped, then the selection background iff flags.selected, then the
\* hover background iff flags.hovered and not flags.selected and the strip's
\* sense is interactive, all of them before the overline and the cell
\* content; a selected cell never gets the hover background.
C23_BackgroundsInOrder ==
    slast.op = "add" =>
        /\ InPaintOrder(slast.painted)
        /\ \A i \in 1..Len(slast.painted) : slast.painted[i] \in
                {PaintOrder[k] : k \in 1..Len(PaintOrder)}
        /\ PaintedAt(slast.painted, "striped") # {} <=> slast.args.flags.striped
        /\ PaintedAt(slast.painted, "selected") # {} <=> slast.args.flags.selected
        /\ PaintedAt(slast.painted, "hovered") # {} <=>
               (slast.args.flags.hovered /\ ~slast.args.flags.selected
                    /\ strip.sense_interactive)
        /\ PaintedAt(slast.painted, "overline") # {} <=> slast.args.flags.overline
        /\ PaintedAt(slast.painted, "contents") = {Len(slast.painted)}
        /\ slast.args.flags.selected => PaintedAt(slast.painted, "hovered") = {}

\* A striped, hovered and selected cell with an overline in a strip that
\* senses: striped, selection, overline and content are painted, in this
\* order, and no hover background.
C23_Witness ==
    /\ slast.op = "add"
    /\ strip.sense_interactive
    /\ slast.args.flags.striped /\ slast.args.flags.hovered
    /\ slast.args.flags.selected /\ slast.args.flags.overline
    /\ slast.painted = <<"striped", "selected", "overline", "contents">>

\* The larger of two positions, coordinate by coordinate.
Pos_max(a, b) == Pos(Max2(a.x, b.x), Max2(a.y, b.y))
Pos_le(a, b) == a.x <= b.x /\ a.y <= b.y
\* The union of rect and r is rect: r does not reach beyond it.
Covers(rect, r) == Rect_union(rect, r) = rect
\* The high-water mark is not before the strip's origin, and the rect that
\* allocate_rect reports covers every rect allocated on the current line.
HighWaterMarkCovers(self, cells) ==
    /\ Pos_le(self.rect.min, self.max)
    /\ Rect_width(StripLayout_allocate_rect(self)) >= 0
    /\ Rect_height(StripLayout_allocate_rect(self)) >= 0
    /\ \A i \in 1..Len(cells) : Covers(StripLayout_allocate_rect(self), cells[i])

----------------------------------------------------------------------------
(* Claims: panels that share an id, ranges, exact sizes and resizing *)

\* The positions in a log of the calls `ev` made with `id`.
CallsOf(log, ev, id) == {i \in 1..Len(log) : log[i].ev = ev /\ log[i].id = id}
\* The top-level panel just shown has the id of one shown before it in the
\* pass.
ShowsIdAgain ==
    /\ plast'.op \in PlainShows
    /\ Len(shown') = Len(shown) + 1
    /\ \E i \in 1..Len(shown) : shown[i].id = shown'[Len(shown')].id

\* C24: a panel shown under the id of a panel already shown in the pass
\* goes through the id-clash check with its panel rect and is shown like any
\* other: the call returns, the content callback runs once, after the
\* check, the panel is laid out in what the earlier panels left, the
\* earlier panels stay as they were, and the rect stored under the shared id
\* is the rect of the panel shown last.
C24_SameIdTwiceIsShown ==
    [][ShowsIdAgain =>
          LET id == shown'[Len(shown')].id
              me == shown'[Len(shown')]
          IN  /\ \E i \in CallsOf(plast'.log, "check_for_id_clash", id) :
                    /\ plast'.log[i].rect.max.x - plast'.log[i].rect.min.x
                           = plast'.extent
                       \/ plast'.log[i].rect.max.y - plast'.log[i].rect.min.y
                           = plast'.extent
                    /\ \A j \in CallsOf(plast'.log, "add_contents", id) : i < j
              /\ Cardinality(CallsOf(plast'.log, "check_for_id_clash", id)) = 1
              /\ Cardinality(CallsOf(plast'.log, "add_contents", id)) = 1
              /\ plast'.ret = SomeRect(me.rect)
              /\ me.available = available_rect
              /\ me.panel_rect.min.x >= RoundUi(available_rect.min.x)
              /\ me.panel_rect.min.y >= RoundUi(available_rect.min.y)
              /\ SubSeq(shown', 1, Len(shown)) = shown
              /\ persisted'[id] = SomeRect(me.rect)
              /\ \A other \in DOMAIN persisted :
                    other # id => persisted'[other] = persisted[other]]_vars

\* A left and then a bottom panel, both under the id "a": both are in the
\* pass, and the rect stored under "a" is the bottom panel's, not the left
\* panel's.
C24_Witness ==
    /\ Len(shown) = 2
    /\ shown[1].kind = "Left" /\ shown[2].kind = "Bottom"
    /\ shown[1].id = Id_new("a") /\ shown[2].id = Id_new("a")
    /\ persisted[Id_new("a")] = SomeRect(shown[2].rect)
    /\ shown[1].rect # shown[2].rect
    /\ plast.ret = SomeRect(shown[2].rect)


\* The range of a panel with its bounds swapped where min exceeds max.
IsInverted(panel) == ExtentRange(panel).min > ExtentRange(panel).max
SwappedRange(panel) ==
    IF IsInverted(panel)
    THEN Rangef(ExtentRange(panel).max, ExtentRange(panel).min)
    ELSE ExtentRange(panel)
\* The edge of the available rect a panel is attached to, and a position,
\* along the panel's axis.
FixedEdge(panel, available) ==
    CASE panel.side = "Left" -> available.min.x
      [] panel.side = "Right" -> available.max.x
      [] panel.side = "Top" -> available.min.y
      [] panel.side = "Bottom" -> available.max.y
Along(panel, pos) == IF IsSide(panel) THEN pos.x ELSE pos.y
\* The resize handle of the panel was read as dragged, with a pointer position.
DraggedTo(panel, response) ==
    panel.resizable /\ response.some /\ response.dragged /\ response.pointer.some
\* The extent of a panel: the stored or default extent, or with a drag the
\* distance of the pointer from the fixed edge, clamped into the range and
\* capped to the available extent.
DecidedExtent(panel, data, available, response) ==
    Min2(Clamped(IF DraggedTo(panel, response)
                 THEN Abs(Along(panel, response.pointer.v) - FixedEdge(panel, available))
                 ELSE CandidateExtent(panel, data),
                 SwappedRange(panel)),
         StoredExtent(panel, available))
\* The call returned the rect of a panel laid out on a panel rect of the
\* extent, to within the rounding to whole points.
CompletedWith(call, top, extent) ==
    /\ call.ret.some
    /\ call.ret.v = top.rect
    /\ Pos_le(top.panel_rect.min, top.panel_rect.max)
    /\ Abs(StoredExtent(call.panel, top.panel_rect) - extent) < Pt(1)

\* C25: a panel whose range has min above max is shown like any other: its
\* extent is the stored, default or dragged extent clamped into the range
\* with the bounds swapped and capped to the available extent, and show
\* returns the rect of a panel of that extent.
C25_InvertedRangeIsSwapped ==
    [][(plast'.op \in PlainShows /\ IsInverted(plast'.panel)) =>
          /\ plast'.extent
                 = DecidedExtent(plast'.panel, persisted, available_rect, plast'.response)
          /\ CompletedWith(plast', shown'[Len(shown')], plast'.extent)]_vars

\* A panel with width_range [400, 96] finds a rect 40 points wide stored on
\* the large screen and is 96 points wide.
C25_Witness ==
    /\ plast.op = "SidePanel::show"
    /\ IsInverted(plast.panel)
    /\ plast.available = PanelScreen
    /\ plast.loaded.some
    /\ StoredExtent(plast.panel, plast.loaded.v) = Pt(40)
    /\ ~DraggedTo(plast.panel, plast.response)
    /\ plast.extent = Pt(96)
    /\ plast.ret.some


\* The extents panels are built to have exactly, and a panel whose last
\* sizing call was exact_width(w) or exact_height(w): the call changes
\* nothing of it.
ExactExtents == { Pt(250), Pt(60), Pt(40) }
ExactAt(panel, w) ==
    panel = IF IsSide(panel) THEN SidePanel_exact_width(panel, w)
            ELSE TopBottomPanel_exact_height(panel, w)

\* C26: a panel built with exact_width(w) or exact_height(w) last has the
\* extent min(w, available extent) in every pass, whatever is stored under
\* its id and wherever the handle is dragged to.
C26_ExactExtent ==
    [][\A w \in ExactExtents :
          (plast'.op \in PlainShows /\ ExactAt(plast'.panel, w)) =>
              /\ plast'.extent = Min2(w, StoredExtent(plast'.panel, available_rect))
              /\ CompletedWith(plast', shown'[Len(shown')], plast'.extent)]_vars

\* A resizable panel of exact width 250 finds a rect of another width
\* stored and its handle dragged to 700 points, and is 250 points wide.
C26_Witness ==
    /\ plast.op = "SidePanel::show"
    /\ ExactAt(plast.panel, Pt(250))
    /\ plast.loaded.some
    /\ StoredExtent(plast.panel, plast.loaded.v) # Pt(250)
    /\ DraggedTo(plast.panel, plast.response)
    /\ plast.response.pointer.v.x = Pt(700)
    /\ plast.extent = Pt(250)


\* C28: a resizable panel whose handle is read as dragged with a pointer
\* position has the extent min(clamp(|pointer - fixed edge|, [min, max]),
\* available extent) in place of the stored or default one; without a
\* pointer position, without a drag, and with no response to read it has
\* the stored or default extent, clamped and capped the same way.
C28_DragRecomputesExtent ==
    [][(plast'.op \in PlainShows /\ plast'.panel.resizable) =>
          LET panel == plast'.panel
              pointer == plast'.response.pointer
              available == StoredExtent(panel, available_rect)
          IN  /\ DraggedTo(panel, plast'.response) =>
                    plast'.extent
                       = Min2(Clamped(Abs(Along(panel, pointer.v)
                                          - FixedEdge(panel, available_rect)),
                                      SwappedRange(panel)),
                              available)
              /\ ~DraggedTo(panel, plast'.response) =>
                    plast'.extent
                       = Min2(Clamped(CandidateExtent(panel, persisted),
                                      SwappedRange(panel)),
                              available)
              /\ CompletedWith(plast', shown'[Len(shown')], plast'.extent)]_vars

\* The handle of a right panel with range [96, 400] on the screen 1000
\* points wide is dragged to x = 700: the panel is 300 points wide, whatever
\* was stored.
C28_Witness ==
    /\ plast.op = "SidePanel::show"
    /\ plast.panel.side = "Right"
    /\ plast.panel.resizable
    /\ plast.panel.width_range = Rangef(Pt(96), Pt(400))
    /\ plast.available = PanelScreen
    /\ DraggedTo(plast.panel, plast.response)
    /\ plast.response.pointer.v.x = Pt(700)
    /\ plast.loaded.some
    /\ StoredExtent(plast.panel, plast.loaded.v) # Pt(300)
    /\ plast.extent = Pt(300)


----------------------------------------------------------------------------
(* Claims: the resize handle *)

ResizeId(panel) == Id_with(panel.id, "__resize")
\* Where in the log of a call the events of a kind under an id are.
EventsAt(log, ev, id) == { i \in 1..Len(log) : log[i].ev = ev /\ log[i].id = id }
\* The extent, the rects and what the pass and the store keep of a show.
Outcome(r) ==
    [extent |-> r.extent, panel_rect |-> r.panel_rect, rect |-> r.rect,
     persisted |-> r.w.persisted, available_rect |-> r.w.available_rect]

\* C29: the resize of a panel lags one pass.  A resizable panel has another
\* extent than the stored or default one only through the response read of
\* a handle that was registered in the pass before; it registers its handle
\* once, after its content; and whatever that interaction answers in this
\* pass, the extent, the panel rect, the rect returned and stored and the
\* region taken from the pass are those of the call with a handle neither
\* hovered nor dragged.
C29_OnePassOfLag ==
    [][(plast'.op \in PlainShows /\ plast'.panel.resizable) =>
          LET panel == plast'.panel
              log == plast'.log
          IN  /\ plast'.extent # DecidedExtent(panel, persisted, available_rect, NoResponse)
                    => /\ ResizeId(panel) \in handles.prev
                       /\ DraggedTo(panel, plast'.response)
              /\ Cardinality(EventsAt(log, "interact", ResizeId(panel))) = 1
              /\ Cardinality(EventsAt(log, "add_contents", panel.id)) = 1
              /\ \A i \in EventsAt(log, "add_contents", panel.id),
                     j \in EventsAt(log, "interact", ResizeId(panel)) : i < j
              /\ ResizeId(panel) \in handles'.this
              /\ Outcome(PlainShow(panel, Interacting(plast'.response, FALSE, FALSE),
                                    plast'.content))
                    = [extent |-> plast'.extent,
                       panel_rect |-> shown'[Len(shown')].panel_rect,
                       rect |-> plast'.ret.v,
                       persisted |-> persisted',
                       available_rect |-> available_rect']]_vars

\* The handle was dragged to 150 points in the pass before and is released
\* in this one: the panel is 150 points wide, not as wide as what is stored.
\* In the other direction, a handle dragged in the first pass it is shown in
\* leaves the panel at its default width.
C29_Witness ==
    /\ plast.op = "SidePanel::show"
    /\ plast.panel.side = "Left"
    /\ plast.panel.width_range = Rangef(Pt(96), Pt(400))
    /\ plast.available = PanelScreen
    /\ DraggedTo(plast.panel, plast.response)
    /\ plast.response.pointer.v.x = Pt(150)
    /\ plast.response.interact = NoInteract
    /\ plast.loaded.some
    /\ StoredExtent(plast.panel, plast.loaded.v) # Pt(150)
    /\ plast.extent = Pt(150)
    /\ ResizeId(plast.panel) \in handles.prev


\* The icon of a handle that can only be dragged away from the fixed edge of
\* its panel, of one that can only be dragged towards it, and of one that
\* can be dragged both ways.
IconAtMin(panel) ==
    CASE panel.side = "Left" -> "ResizeEast"
      [] panel.side = "Right" -> "ResizeWest"
      [] panel.side = "Top" -> "ResizeSouth"
      [] panel.side = "Bottom" -> "ResizeNorth"
IconAtMax(panel) ==
    CASE panel.side = "Left" -> "ResizeWest"
      [] panel.side = "Right" -> "ResizeEast"
      [] panel.side = "Top" -> "ResizeNorth"
      [] panel.side = "Bottom" -> "ResizeSouth"
IconBetween(panel) == IF IsSide(panel) THEN "ResizeHorizontal" ELSE "ResizeVertical"
\* The handle of the panel is hovered or dragged in this pass.
HandleActive(panel, response) ==
    panel.resizable /\ (response.interact.hovered \/ response.interact.dragged)

\* C30: a resizable panel whose handle is hovered or dragged in the pass sets
\* the cursor icon: the directional icon of its side at an extent <= min
\* (left East, right West, top South, bottom North), the opposite one at an
\* extent >= max, and the bidirectional one in between; where the extent is
\* both <= min and >= max it is the icon of min.  A panel whose handle is
\* neither hovered nor dragged, and a panel that is not resizable, sets none.
C30_CursorIcon ==
    [][plast'.op \in PlainShows =>
          LET panel == plast'.panel
              extent == plast'.extent
              range == ExtentRange(panel)
          IN  IF HandleActive(panel, plast'.response)
              THEN /\ plast'.icon.some
                   /\ extent <= range.min => plast'.icon.v = IconAtMin(panel)
                   /\ (extent > range.min /\ extent >= range.max)
                         => plast'.icon.v = IconAtMax(panel)
                   /\ (extent > range.min /\ extent < range.max)
                         => plast'.icon.v = IconBetween(panel)
              ELSE ~plast'.icon.some]_vars

\* The handle of a left panel with range [96, 400] that was dragged out to
\* 400 points is hovered: the icon is ResizeWest.
C30_Witness ==
    /\ plast.op = "SidePanel::show"
    /\ plast.panel.side = "Left"
    /\ plast.panel.width_range = Rangef(Pt(96), Pt(400))
    /\ plast.response.interact = Interact(TRUE, FALSE)
    /\ plast.extent = Pt(400)
    /\ plast.icon.some
    /\ plast.icon.v = "ResizeWest"


----------------------------------------------------------------------------
(* Claims: what a panel stores, the central panel, and the animated panels *)

PlainInsideShows == {"SidePanel::show_inside", "TopBottomPanel::show_inside"}
StoringShows == PlainShows \cup PlainInsideShows
\* The rect a show call lays its panel out in: the available rect of the
\* pass at the top level, the cursor of the parent Ui inside it.
OfferedTo(op) == IF op \in PlainShows THEN available_rect ELSE cursor

\* C31: a show or show_inside of a side or top/bottom panel stores the
\* PanelState of the panel's id exactly once, after the content and after
\* the interaction with the resize handle; what it stores is the response
\* rect of the frame, which the call returns; begin_pass keeps it, and the
\* next call under the id decides its extent from it.
C31_StoredOncePerShow ==
    [][/\ plast'.op \in StoringShows =>
             LET panel == plast'.panel
                 log == plast'.log
                 stores == EventsAt(log, "store", panel.id)
             IN  /\ Cardinality(stores) = 1
                 /\ \A s \in stores :
                        /\ log[s].rect = plast'.ret.v
                        /\ \A i \in EventsAt(log, "add_contents", panel.id) : i < s
                        /\ \A i \in EventsAt(log, "interact", ResizeId(panel)) : i < s
                 /\ Cardinality(EventsAt(log, "interact", ResizeId(panel)))
                       = IF panel.resizable THEN 1 ELSE 0
                 /\ persisted' = [persisted EXCEPT ![panel.id] = plast'.ret]
                 /\ plast'.extent
                       = DecidedExtent(panel, persisted, OfferedTo(plast'.op),
                                       plast'.response)
       /\ plast'.op = "begin_pass" => persisted' = persisted]_vars

\* A pass finds stored the rect of overflowing content, wider than the
\* range of the panel allows, clamps it, and stores the rect of its own
\* content, which is again not of the extent it decided on.
C31_Witness ==
    /\ plast.op \in PlainInsideShows
    /\ plast.panel.resizable
    /\ plast.loaded.some
    /\ StoredExtent(plast.panel, plast.loaded.v) > ExtentRange(plast.panel).max
    /\ plast.extent = ExtentRange(plast.panel).max
    /\ persisted[plast.panel.id] = plast.ret
    /\ StoredExtent(plast.panel, plast.ret.v) # plast.extent
    /\ plast.ret # plast.loaded


\* What the top-level panels of a pass leave of a rect: each takes the
\* region it reported from its side.
Without(rect, top) ==
    CASE top.kind = "Left" -> [rect EXCEPT !.min.x = top.reported.max.x]
      [] top.kind = "Right" -> [rect EXCEPT !.max.x = top.reported.min.x]
      [] top.kind = "Top" -> [rect EXCEPT !.min.y = top.reported.max.y]
      [] top.kind = "Bottom" -> [rect EXCEPT !.max.y = top.reported.min.y]
      [] OTHER -> rect
RECURSIVE Remaining(_, _)
Remaining(rect, tops) ==
    IF tops = <<>> THEN rect ELSE Remaining(Without(rect, Head(tops)), Tail(tops))
\* The kinds of event in the log of a call.
EventsOf(log) == { log[i].ev : i \in 1..Len(log) }
CentralShows == {"CentralPanel::show", "CentralPanel::show_inside"}

\* C32: the central panel is laid out on all that is left: at the top level
\* on the available rect of the pass, rounded to whole points, which is the
\* rect the pass began with less the regions the panels before it reported;
\* inside a Ui on the cursor rect of that Ui.  It stores nothing, registers
\* no handle, checks no id, and takes nothing from the available rect.
C32_CentralTakesTheRest ==
    [][plast'.op \in CentralShows =>
          /\ plast'.op = "CentralPanel::show" =>
                /\ shown'[Len(shown')].panel_rect = Rect_round_ui(available_rect)
                /\ available_rect = Remaining(shown'[1].available, shown)
                /\ EventsOf(plast'.log) = {"add_contents", "allocate_central_panel"}
                /\ Reported(plast'.log) = plast'.ret.v
          /\ plast'.op = "CentralPanel::show_inside" =>
                /\ EventsOf(plast'.log) = {"add_contents"}
                /\ \A i \in EventsAt(plast'.log, "add_contents", NoId) :
                       plast'.log[i].rect = cursor
          /\ Cardinality(EventsAt(plast'.log, "add_contents", NoId)) = 1
          /\ plast'.ret.some
          /\ plast'.ret.v.min = plast'.log[1].rect.min
          /\ persisted' = persisted
          /\ handles' = handles
          /\ available_rect' = available_rect]_vars

\* Two panels have taken their regions from a screen whose size is no whole
\* number of points; the central panel is laid out on the rest, rounded.
C32_Witness ==
    /\ plast.op = "CentralPanel::show"
    /\ Len(shown) = 3
    /\ shown[1].kind \in {"Left", "Right"}
    /\ shown[2].kind \in {"Top", "Bottom"}
    /\ shown[3].available = Remaining(shown[1].available, SubSeq(shown, 1, 2))
    /\ shown[3].available # shown[1].available
    /\ shown[3].panel_rect # shown[3].available
    /\ shown[3].panel_rect = Rect_round_ui(shown[3].available)


\* The call shows the fake panel: its progress is strictly between 0 and 1.
InBetween(call) == 0 < call.how_expanded /\ call.how_expanded < ProgressSteps
AnimatedInsideShows ==
    {"SidePanel::show_animated_inside", "SidePanel::show_animated_between_inside",
     "TopBottomPanel::show_animated_inside",
     "TopBottomPanel::show_animated_between_inside"}
\* The extent of the panel rect the first panel of a call was checked with:
\* the extent asked for, capped to what the call was offered.
FirstExtent(call) == StoredExtent(call.panel, call.log[1].rect)
OfferedExtent(call) ==
    StoredExtent(call.panel,
                 IF call.op \in AnimatedInsideShows THEN cursor ELSE available_rect)
\* The extent an animation takes a panel to have: that of the rect stored
\* under its id, else the configured default, else (a top or bottom panel
\* without one) the height of a widget.
AnimationExtent(panel, data) ==
    IF data[panel.id].some THEN StoredExtent(panel, data[panel.id].v)
    ELSE IF IsSide(panel) THEN panel.default_width
    ELSE IF panel.default_height.some THEN panel.default_height.v
    ELSE interact_size_y
\* The extent the fake panel of a call is asked to have, by the extents the
\* collapsed and the expanded panel are taken to have.
FakeExtent(call, collapsed, expanded) ==
    Min2(lerp(IF call.op \in BetweenShows THEN collapsed ELSE 0, expanded,
              call.how_expanded),
         OfferedExtent(call))

ContentsRun(log) == { i \in 1..Len(log) : log[i].ev = "add_contents" }
PanelsChecked(log) == { i \in 1..Len(log) : log[i].ev = "check_for_id_clash" }
FakeId(panel) == Id_with(panel.id, "animating_panel")
\* The panel a call between two panels shows at its progress.
ShownBetween(call) ==
    IF call.how_expanded = 0 THEN call.panel.collapsed.id
    ELSE IF call.how_expanded < ProgressSteps THEN FakeId(call.panel)
    ELSE call.panel.id

\* C34: show_animated and show_animated_inside run the callback they are
\* given only at progress 1.0, once, in the panel itself; in between, the
\* one callback that runs is the empty one of the fake panel and the call
\* returns None; at 0.0 none runs.  show_animated_between and
\* show_animated_between_inside run the callback they are given exactly
\* once at every progress, with the progress, in the one panel they show:
\* the collapsed panel at 0.0, the fake panel in between, the expanded
\* panel at 1.0.
C34_ContentRunsWhenShown ==
    [][LET call == plast'
           log == plast'.log
           ran == ContentsRun(log)
       IN  /\ call.op \in AnimatedShows =>
                 /\ Cardinality(ran) = IF call.how_expanded = 0 THEN 0 ELSE 1
                 /\ call.ret.some <=> call.how_expanded = ProgressSteps
                 /\ \A i \in ran :
                        IF call.how_expanded = ProgressSteps
                        THEN log[i].content = call.content /\ log[i].id = call.panel.id
                        ELSE log[i].content = EmptyContent
                             /\ log[i].id = FakeId(call.panel)
           /\ call.op \in BetweenShows =>
                 /\ Cardinality(ran) = 1
                 /\ \A i \in ran :
                        /\ log[i].content
                              = [call.content EXCEPT
                                    !.progress = SomeF32(call.how_expanded)]
                        /\ log[i].id = ShownBetween(call)
                 /\ Cardinality(PanelsChecked(log)) = 1
                 /\ \A i \in PanelsChecked(log) : log[i].id = ShownBetween(call)]_vars

\* Half way between two panels the overflowing content runs in the fake
\* panel, with the progress, and makes the rect stored for the fake panel
\* wider than the screen.
C34_Witness ==
    /\ plast.op = "SidePanel::show_animated_between"
    /\ InBetween(plast)
    /\ plast.content = Content(FALSE, Pt(1100) + 1, Pt(700) + 1)
    /\ \E i \in ContentsRun(plast.log) :
          /\ plast.log[i].content.progress = SomeF32(plast.how_expanded)
          /\ plast.log[i].id = FakeId(plast.panel)
    /\ persisted[FakeId(plast.panel)].some
    /\ Rect_width(persisted[FakeId(plast.panel)].v) > Rect_width(PanelScreen)
    /\ ~plast.ret.some


----------------------------------------------------------------------------
(* Claims: the builders keep the range ordered *)

\* The range a builder chain has configured, and the operations that set
\* the extent to start with.
BuiltRange ==
    IF built.kind = "SidePanel" THEN built.panel.width_range
    ELSE built.panel.height_range
SetsDefault == {"default_width", "exact_width", "default_height", "exact_height"}

\* C35: after any chain of default_width/height, min_width/height,
\* max_width/height and exact_width/height on SidePanel::new or
\* TopBottomPanel::new, with finite arguments, the configured range has
\* min <= max; and right after default_width(d), exact_width(d),
\* default_height(d) or exact_height(d) the range contains d.
C35_BuiltRangeOrdered ==
    built.kind # "none" =>
        /\ BuiltRange.min <= BuiltRange.max
        /\ built.op \in SetsDefault =>
              BuiltRange.min <= built.arg /\ built.arg <= BuiltRange.max

\* A minimum above the maximum before it: max_width(50) then
\* min_width(200) leaves the range the single point 200.
C35_Witness ==
    /\ built.kind = "SidePanel"
    /\ built.op = "min_width"
    /\ built.arg = Pt(200)
    /\ built.panel.width_range = Rangef(Pt(200), Pt(200))
    /\ built.panel.default_width = Pt(200)


----------------------------------------------------------------------------
(* Claims: the event loop wrapper *)

\* A step of a handler: it leaves a record that differs from the last one.
HandlerStep == rlast' # rlast
\* The map `times` with the time of `window_id` set to `time`, all other
\* keys as they were.
SetsOnly(after, times, window_id, time) ==
    /\ DOMAIN after = DOMAIN times \cup {window_id}
    /\ after[window_id] = time
    /\ \A w \in DOMAIN times \ {window_id} : after[w] = times[w]

\* C36: the match of handle_event_result on RepaintAt(w, t) sets the time
\* scheduled for w to the earlier of the time scheduled before and t, or
\* to t if none was scheduled, and so never to a later time than before;
\* on RepaintNow(w) and RepaintNext(w) it sets it to an instant read from
\* the clock during the handler, as does the block that paints a
\* RepaintNow at once on Windows; it changes no other entry.
C36_RepaintAtKeepsTheEarlier ==
    [][HandlerStep /\ rlast'.op = "window_event" =>
           LET old == app.windows_next_repaint_times
               given == rlast'.event_result
               matched == rlast'.matched
               before == rlast'.before
               scheduled == rlast'.scheduled
           IN  /\ IF RepaintsAtOnce(process.target_windows, given)
                  THEN \E at \in clock..clock' :
                          SetsOnly(before, old, given.v.window_id, at)
                  ELSE before = old /\ matched = given
               /\ matched.ok /\ matched.v.tag = "RepaintAt" =>
                     /\ SetsOnly(scheduled, before, matched.v.window_id,
                                 IF matched.v.window_id \in DOMAIN before
                                 THEN Min2(before[matched.v.window_id], matched.v.time)
                                 ELSE matched.v.time)
                     /\ matched.v.window_id \in DOMAIN before =>
                           scheduled[matched.v.window_id]
                               <= before[matched.v.window_id]
               /\ matched.ok /\ matched.v.tag \in {"RepaintNow", "RepaintNext"} =>
                     \E at \in clock..clock' :
                        SetsOnly(scheduled, before, matched.v.window_id, at)
               /\ ~(matched.ok /\ matched.v.tag \in {"RepaintAt", "RepaintNow",
                                                      "RepaintNext"}) =>
                     scheduled = before]_vars

\* A repaint of w1 is scheduled at 1; a RepaintAt(w1, 2) arrives at 0 and
\* the repaint stays scheduled at 1.
C36_Witness ==
    /\ rlast.op = "window_event"
    /\ rlast.matched = Ok(EventResult_RepaintAt("w1", 2))
    /\ "w1" \in DOMAIN rlast.before
    /\ rlast.before["w1"] = 1
    /\ rlast.scheduled["w1"] = 1
    /\ rlast.now = 0
    /\ "w1" \in DOMAIN app.windows_next_repaint_times
    /\ app.windows_next_repaint_times["w1"] = 1

\* C37: after check_redraw_requests, run by new_events or at the end of a
\* handler, every entry left has a time strictly later than the instant
\* the call sampled; every entry with a time at or before that instant is
\* gone, and request_redraw was called for its window once if the app has
\* that window and not at all if it has not; no other window was asked to
\* redraw; and if entries are left the control flow is WaitUntil of the
\* earliest of their times.
C37_CheckRedrawRequests ==
    [][HandlerStep =>
           LET now == rlast'.now
               was == rlast'.scheduled
               left == app'.windows_next_repaint_times
               request_redraw == rlast'.request_redraw
           IN  /\ \A w \in DOMAIN left : left[w] > now
               /\ \A w \in DOMAIN was :
                     IF was[w] <= now
                     THEN /\ w \notin DOMAIN left
                          /\ request_redraw[w] = IF w \in rlast'.windows THEN 1 ELSE 0
                     ELSE /\ w \in DOMAIN left
                          /\ left[w] = was[w]
                          /\ request_redraw[w] = 0
               /\ DOMAIN left \subseteq DOMAIN was
               /\ \A w \in WindowIds \ DOMAIN was : request_redraw[w] = 0
               /\ DOMAIN left # {} =>
                     /\ event_loop'.control_flow.tag = "WaitUntil"
                     /\ event_loop'.control_flow.until \in HashMap_values(left)
                     /\ \A w \in DOMAIN left :
                           event_loop'.control_flow.until <= left[w]]_vars

\* new_events at instant 1 with w1 due at 1 and w2 at 2: w1 is asked to
\* redraw and taken out, w2 stays, and the loop waits until 2.
C37_Witness ==
    /\ rlast.op = "new_events"
    /\ rlast.now = 1
    /\ rlast.scheduled = [w \in WindowIds |-> IF w = "w1" THEN 1 ELSE 2]
    /\ rlast.request_redraw = [w \in WindowIds |-> IF w = "w1" THEN 1 ELSE 0]
    /\ app.windows_next_repaint_times = [w \in {"w2"} |-> 2]
    /\ event_loop.control_flow = ControlFlow_WaitUntil(2)


\* A request is current if the pass number the app gave for its viewport
\* is the number of the request or the one after it.
IsCurrent(request, answer) ==
    \/ answer.current_pass_nr = request.cumulative_pass_nr
    \/ answer.current_pass_nr = request.cumulative_pass_nr + 1
\* A user_event step whose request is outdated or whose viewport has no window.
NotScheduling ==
    /\ HandlerStep
    /\ rlast'.op = "user_event"
    /\ ~(IsCurrent(rlast'.request, rlast'.answer) /\ rlast'.answer.window_id # NoWindow)

\* C38 as stated: a request that is outdated, or whose viewport has no
\* window, leaves windows_next_repaint_times as it was.
C38_OutdatedLeavesMapUnchanged ==
    [][NotScheduling =>
           app'.windows_next_repaint_times = app.windows_next_repaint_times]_vars

\* C38: user_event hands RepaintAt(window, when) to handle_event_result
\* exactly when the request is current and its viewport has a window, and
\* the window's time becomes the earlier of the time scheduled and `when`;
\* any other request is handled as Wait and schedules nothing: it adds no
\* entry and changes no time, but the check_redraw_requests that ends the
\* handler still takes out the entries that are due.
C38_OnlyCurrentRequestsScheduled ==
    [][HandlerStep /\ rlast'.op = "user_event" =>
           LET old == app.windows_next_repaint_times
               request == rlast'.request
               answer == rlast'.answer
               left == app'.windows_next_repaint_times
           IN  IF IsCurrent(request, answer) /\ answer.window_id # NoWindow
               THEN /\ rlast'.matched
                         = Ok(EventResult_RepaintAt(answer.window_id, request.when))
                    /\ SetsOnly(rlast'.scheduled, old, answer.window_id,
                                IF answer.window_id \in DOMAIN old
                                THEN Min2(old[answer.window_id], request.when)
                                ELSE request.when)
               ELSE /\ rlast'.matched = Ok(EventResult_Wait)
                    /\ rlast'.scheduled = old
                    /\ DOMAIN left = { w \in DOMAIN old : old[w] > rlast'.now }
                    /\ \A w \in DOMAIN left : left[w] = old[w]]_vars

\* A request of pass 0 arrives when the viewport is at pass 2 and the
\* repaint of w1 has fallen due: nothing is scheduled, w1 is asked to
\* redraw and its entry is taken out.
C38_Witness ==
    /\ rlast.op = "user_event"
    /\ rlast.request.cumulative_pass_nr = 0
    /\ rlast.answer = Answered(2, "w2")
    /\ rlast.matched = Ok(EventResult_Wait)
    /\ rlast.scheduled = [w \in {"w1"} |-> 1]
    /\ rlast.now = 1
    /\ rlast.request_redraw["w1"] = 1
    /\ app.windows_next_repaint_times = HashMap_default


\* The handlers that hand a result of the app to handle_event_result.
AppHandlers == {"suspended", "resumed", "device_event", "window_event", "user_event"}
\* The step in which run_and_return returns.
RunAndReturnReturned ==
    process.state # "returned" /\ process'.state = "returned" /\ app.run_and_return

\* C39 as stated: run_and_return returns the error recorded in
\* return_result, and Ok(()) if every handler returned Ok.
C39_ReturnsRecordedResult ==
    process.state = "returned" /\ app.run_and_return =>
        /\ process.returned = app.return_result
        /\ ~rlast.failed => process.returned = Ok("()")

\* C39: a handler result of Err(e) is recorded as return_result = Err(e)
\* and asks to exit: in run_and_return mode by event_loop.exit(), the
\* process going on, otherwise by save_and_destroy and process exit; an Ok
\* result leaves return_result as it was, so return_result is an error
\* exactly if some handler has failed.  run_and_return returns
\* return_result, hence the error recorded last or Ok(()) if there was
\* none, provided run_app_on_demand itself returned Ok; the error of the
\* event loop is returned otherwise.
C39_ErrorRecordedAndReturned ==
    [][/\ HandlerStep /\ rlast'.op \in AppHandlers =>
             /\ IF rlast'.matched.ok
                THEN app'.return_result = app.return_result
                ELSE /\ app'.return_result = Err(rlast'.matched.err)
                     /\ IF app.run_and_return
                        THEN /\ event_loop'.exit
                             /\ process'.state = "running"
                             /\ rlast'.save_and_destroy = 0
                        ELSE /\ process'.state = "exited"
                             /\ rlast'.save_and_destroy = 1
             /\ rlast'.failed <=> ~app'.return_result.ok
       /\ RunAndReturnReturned =>
             process'.returned
                 = IF process'.loop_result.ok THEN app.return_result
                   ELSE Err(process'.loop_result.err)
       /\ RunAndReturnReturned /\ process'.loop_result.ok /\ ~rlast.failed =>
             process'.returned = Ok("()")]_vars

\* Two handlers fail in run_and_return mode, the second after exit was
\* asked for; the loop returns Ok and run_and_return the second error.
C39_Witness ==
    /\ process.state = "returned"
    /\ app.run_and_return
    /\ event_loop.exit
    /\ rlast.failed
    /\ process.loop_result.ok
    /\ app.return_result = Err("error 2")
    /\ process.returned = Err("error 2")


\* A repaint of window w is scheduled in a running loop.
Scheduled(w) ==
    process.state = "running" /\ w \in DOMAIN app.windows_next_repaint_times
\* The last handler found the repaint of w due and took it out, asking the
\* window to redraw if the app has it.
Redrawn(w) ==
    /\ w \notin DOMAIN app.windows_next_repaint_times
    /\ w \in DOMAIN rlast.scheduled
    /\ rlast.scheduled[w] <= rlast.now
    /\ w \in rlast.windows => rlast.request_redraw[w] = 1

\* C40: where the clock goes on and new_events is delivered once the
\* deadline of a WaitUntil is reached, every repaint scheduled for a window
\* is, as long as the loop runs, eventually found due by a
\* check_redraw_requests that takes its entry out of the map and asks the
\* window, if it exists, to redraw: no entry stays in the map forever.
C40_ScheduledRepaintIsRequested ==
    \A w \in WindowIds : Scheduled(w) ~> (Redrawn(w) \/ process.state # "running")

\* The loop woke up at the deadline 2 of w1, set at instant 0, and asked
\* w1 to redraw.
C40_Witness ==
    /\ rlast.op = "new_events"
    /\ rlast.scheduled = [w \in {"w1"} |-> MaxInstant]
    /\ rlast.now = MaxInstant
    /\ Redrawn("w1")
    /\ rlast.request_redraw["w1"] = 1
    /\ process.state = "running"

====
